---- MODULE Spec2Model ----
(***************************************************************************)
(* Synthesis -> verification -> execution pipeline of the PDCA tools:      *)
(*   DynamicToolCreator  (tools/dynamic_tool_creator/dynamic_tool_creator) *)
(*   ToolVerifierTool    (tools/verificador/tool_verifier)                 *)
(*   ExecutarFerramentaTool (tools/dinamicas/executar_ferramenta_tool)     *)
(*                                                                         *)
(* Text is modelled as a sequence of one-character strings, so that        *)
(* lower(), replace(), strip(), endswith() and the `in` substring test are *)
(* computed as Python computes them.  The Python parser, the module loader *)
(* and the behaviour of loaded code are the environment: an artifact       *)
(* carries, next to its lines, what ast.parse answers for it and what its  *)
(* top-level code, its class constructor and its entry point do when run.  *)
(***************************************************************************)
EXTENDS Integers, Sequences, FiniteSets, TLC

\* ------------------------------------------------------------------ bounds
\* Number of operations (create, verify, execute, external write) in a run.
MaxOps == 3
\* Number of DynamicToolCreator._run calls that run at the same time.
MaxCallers == 2

\* ----------------------------------------------------------- text helpers
Max(a, b) == IF a >= b THEN a ELSE b
Min(a, b) == IF a <= b THEN a ELSE b

\* Upper- and lower-case letters, for str.lower().
UPPER ==
    <<"A", "B", "C", "D", "E", "F", "G", "H", "I", "J", "K", "L", "M", "N", "O", "P", "Q",
       "R", "S", "T", "U", "V", "W", "X", "Y", "Z">>
LOWER ==
    <<"a", "b", "c", "d", "e", "f", "g", "h", "i", "j", "k", "l", "m", "n", "o", "p", "q",
       "r", "s", "t", "u", "v", "w", "x", "y", "z">>

\* Slice with the start one element late.
Slice_late(s, i, j) == SubSeq(s, i + 2, IF j <= Len(s) THEN j ELSE Len(s))

\* s[i:j] of Python for 0 <= i, j (0-based, j exclusive, clipped to the length)
Slice(s, i, j) == SubSeq(s, i + 1, Min(j, Len(s)))

\* `m in s` for two str
IsSubstr(m, s) ==
    \E i \in 0..(Len(s) - Len(m)) : SubSeq(s, i + 1, i + Len(m)) = m

\* s.endswith(m)
EndsWith(s, m) ==
    Len(s) >= Len(m) /\ SubSeq(s, Len(s) - Len(m) + 1, Len(s)) = m

\* s.startswith(m)
StartsWith(s, m) ==
    Len(s) >= Len(m) /\ SubSeq(s, 1, Len(m)) = m

LowerChar(c) ==
    IF \E i \in 1..Len(UPPER) : UPPER[i] = c
    THEN LOWER[CHOOSE i \in 1..Len(UPPER) : UPPER[i] = c]
    ELSE c

\* s.lower()
Lower(s) == [i \in 1..Len(s) |-> LowerChar(s[i])]

RECURSIVE ReplaceChar(_, _, _)
\* s.replace(c, r) for a one-character c and a text r
ReplaceChar(s, c, r) ==
    IF s = <<>> THEN <<>>
    ELSE (IF Head(s) = c THEN r ELSE <<Head(s)>>) \o ReplaceChar(Tail(s), c, r)

RECURSIVE LStrip(_)
LStrip(s) == IF s # <<>> /\ Head(s) = " " THEN LStrip(Tail(s)) ELSE s

RECURSIVE RStrip(_)
RStrip(s) ==
    IF s # <<>> /\ s[Len(s)] = " " THEN RStrip(SubSeq(s, 1, Len(s) - 1)) ELSE s

\* s.strip()
Strip(s) == RStrip(LStrip(s))

RECURSIVE Join(_)
\* ''.join(lines)
Join(ls) == IF ls = <<>> THEN <<>> ELSE Head(ls) \o Join(Tail(ls))

\* Markers the verifier looks for in source lines.
Marker ==
    [run |-> <<"_", "r", "u", "n">>,
     class |-> <<"c", "l", "a", "s", "s">>,
     Tool |-> <<"T", "o", "o", "l">>,
     BaseTool |-> <<"B", "a", "s", "e", "T", "o", "o", "l">>,
     BaseModel |-> <<"B", "a", "s", "e", "M", "o", "d", "e", "l">>,
     Field |-> <<"F", "i", "e", "l", "d", "(">>,
     name |-> <<"n", "a", "m", "e">>,
     description |-> <<"d", "e", "s", "c", "r", "i", "p", "t", "i", "o", "n">>,
     args_schema |-> <<"a", "r", "g", "s", "_", "s", "c", "h", "e", "m", "a">>,
     import |-> <<"i", "m", "p", "o", "r", "t">>,
     from |-> <<"f", "r", "o", "m">>,
     def |-> <<"d", "e", "f">>]

\* Messages of the Python parser (SyntaxError.msg); block is the start of
\* "expected an indented block after ...".
ParserMsg ==
    [colon |-> <<"e", "x", "p", "e", "c", "t", "e", "d", " ", "'", ":", "'">>,
     eof |-> <<"u", "n", "e", "x", "p", "e", "c", "t", "e", "d", " ", "E", "O", "F">>,
     indent |-> <<"u", "n", "e", "x", "p", "e", "c", "t", "e", "d", " ", "i", "n",
              "d", "e", "n", "t">>,
     eof_full |-> <<"u", "n", "e", "x", "p", "e", "c", "t", "e", "d", " ", "E", "O",
              "F", " ", "w", "h", "i", "l", "e", " ", "p", "a", "r", "s", "i", "n",
              "g">>,
     never_closed |-> <<"'", "(", "'", " ", "w", "a", "s", " ", "n", "e", "v", "e",
              "r", " ", "c", "l", "o", "s", "e", "d">>,
     block |-> <<"e", "x", "p", "e", "c", "t", "e", "d", " ", "a", "n", " ", "i",
              "n", "d", "e", "n", "t", "e", "d", " ", "b", "l", "o", "c", "k">>,
     invalid |-> <<"i", "n", "v", "a", "l", "i", "d", " ", "s", "y", "n", "t", "a",
              "x">>]

DOTS ==
    <<".", ".", ".">>

\* Source lines of the hand-written sample files.
Line ==
    [import |-> <<"f", "r", "o", "m", " ", "c", "r", "e", "w", "a", "i", ".", "t",
              "o", "o", "l", "s", " ", "i", "m", "p", "o", "r", "t", " ", "B", "a",
              "s", "e", "T", "o", "o", "l">>,
     class |-> <<"c", "l", "a", "s", "s", " ", "A", "T", "o", "o", "l", "(", "B",
              "a", "s", "e", "T", "o", "o", "l", ")", ":">>,
     class_bad |-> <<"c", "l", "a", "s", "s", " ", "A", "T", "o", "o", "l", "(",
              "B", "a", "s", "e", "T", "o", "o", "l", ")">>,
     name |-> <<" ", " ", " ", " ", "n", "a", "m", "e", ":", " ", "s", "t", "r",
              " ", "=", " ", "'", "A", "'">>,
     run |-> <<" ", " ", " ", " ", "d", "e", "f", " ", "_", "r", "u", "n", "(", "s",
              "e", "l", "f", ")", ":">>,
     ret |-> <<" ", " ", " ", " ", " ", " ", " ", " ", "r", "e", "t", "u", "r", "n",
              " ", "'", "o", "k", "'">>,
     aux |-> <<" ", " ", " ", " ", "d", "e", "f", " ", "p", "r", "o", "c", "e", "s",
              "s", "(", "s", "e", "l", "f", ",", " ", "p", "a", "t", "h", ")", ":">>,
     long_bad |-> <<" ", " ", " ", " ", " ", " ", " ", " ", "r", "e", "t", "u", "r",
              "n", " ", "s", "e", "l", "f", ".", "p", "r", "o", "c", "e", "s", "s",
              "_", "p", "a", "t", "h", "(", "p", "a", "t", "h", ",", " ", "l", "e",
              "v", "e", "l">>,
     indent |-> <<" ", " ", "x", " ", "=", " ", "1">>,
     x |-> <<"x", " ", "=", " ", "1">>,
     bslash |-> <<"\\">>]

\* ------------------------------------------------------------ data model
\* Optional values: <<>> is None, <<v>> is the value v.
None == <<>>
Some(v) == <<v>>

\* A place in the file system.  Every path of the model has the shape
\* <base>/<top>/pdca/tools/<dir>[/<file>]: base is the directory a relative
\* path is resolved against, top its first component, file (when present) a
\* record [stem, suffix].
Path(base, top, dir, file) == [base |-> base, top |-> top, dir |-> dir, file |-> file]
FileName(stem, suffix) == [stem |-> stem, suffix |-> suffix]
ParentDir(p) == [p EXCEPT !.file = None]

\* What ast.parse answers for a source text.
ParseOk == [kind |-> "ok", lineno |-> 0, msg |-> <<>>]
ParseSyntaxError(lineno, msg) == [kind |-> "SyntaxError", lineno |-> lineno, msg |-> msg]
ParseOtherError == [kind |-> "ValueError", lineno |-> 0, msg |-> <<>>]

\* Outcomes of running foreign code: it returns, raises an Exception, or
\* raises a BaseException that is no Exception (SystemExit, KeyboardInterrupt).
Outcomes == {"ok", "Exception", "SystemExit"}

\* ----------------------------------------------------------- the verifier
\* A diagnostic message before add_error/add_warning/add_info format it.
Msg(id, line, text, name) == [id |-> id, line |-> line, text |-> text, name |-> name]
Note(id) == Msg(id, 0, <<>>, "")

\* _ToolAnalysisResult.__init__ ; raised and calls record the exception that
\* escapes the verifier and the calls it made into the environment.
ToolAnalysisResult(tool_path) ==
    [tool_path |-> tool_path, errors |-> <<>>, warnings |-> <<>>, info |-> <<>>,
     tool_class_name |-> None, tool_class |-> None, tool_instance |-> None,
     error_components |-> {}, raised |-> "none", calls |-> <<>>]

\* add_error that records nothing.
add_error_lost(res, message, component) == res

add_error(res, message, component) ==
    IF component # ""
    THEN [res EXCEPT !.error_components = @ \cup {component},
                     !.errors = Append(@, [prefix |-> "ERRO NO COMPONENTE",
                                           component |-> component, msg |-> message])]
    ELSE [res EXCEPT !.errors = Append(@, [prefix |-> "ERRO", component |-> "",
                                           msg |-> message])]

add_warning(res, message, component) ==
    IF component # ""
    THEN [res EXCEPT !.warnings = Append(@, [prefix |-> "AVISO NO COMPONENTE",
                                             component |-> component, msg |-> message])]
    ELSE [res EXCEPT !.warnings = Append(@, [prefix |-> "AVISO", component |-> "",
                                             msg |-> message])]

add_info(res, message) ==
    [res EXCEPT !.info = Append(@, [prefix |-> "INFO", component |-> "", msg |-> message])]

Called(res, what) == [res EXCEPT !.calls = Append(@, what)]
Raise(res, exc) == [res EXCEPT !.raised = exc]

\* _build_result_dict that lets warnings decide sucesso too.
_build_result_dict_strict(res) ==
    [sucesso |-> (res.errors = <<>> /\ res.warnings = <<>>),
     erros |-> res.errors,
     avisos |-> res.warnings,
     infos |-> res.info,
     tool_path |-> <<res.tool_path>>,
     tool_class_name |-> res.tool_class_name]

_build_result_dict(res) ==
    [sucesso |-> (res.errors = <<>>),
     erros |-> res.errors,
     avisos |-> res.warnings,
     infos |-> res.info,
     tool_path |-> Some(res.tool_path),
     tool_class_name |-> res.tool_class_name]

\* The dictionary run returns when no tool_path was given.
MissingArgumentDict ==
    [sucesso |-> FALSE,
     erros |-> <<[prefix |-> "ERRO", component |-> "",
                  msg |-> Note("Argumento 'tool_path' nao fornecido")]>>,
     avisos |-> <<>>,
     infos |-> <<>>,
     tool_path |-> None,
     tool_class_name |-> None]

ComponenteMetodoRun == "Metodo _run"
ComponenteHeranca == "Heranca de Classe"

_identificar_componente_com_erro(linhas, linha_erro) ==
    LET linha_atual == linha_erro - 1
        linha_atual_str == Strip(linhas[linha_atual + 1])
        janela == Slice(linhas, Max(0, linha_atual - 5), Min(Len(linhas), linha_atual + 5))
    IN  IF IsSubstr(Marker.run, Join(janela)) THEN ComponenteMetodoRun
        ELSE IF IsSubstr(Marker.class, linha_atual_str)
                /\ (IsSubstr(Marker.Tool, linha_atual_str) \/ IsSubstr(Marker.BaseTool, linha_atual_str))
             THEN ComponenteHeranca
        ELSE IF IsSubstr(Marker.BaseModel, linha_atual_str)
                \/ \E i \in 1..Len(janela) : IsSubstr(Marker.Field, janela[i])
             THEN "Schema de Entrada"
        ELSE IF \E attr \in {Marker.name, Marker.description, Marker.args_schema} :
                    IsSubstr(attr, linha_atual_str)
             THEN "Atributos da Classe"
        ELSE IF IsSubstr(Marker.import, Lower(linha_atual_str))
                \/ IsSubstr(Marker.from, Lower(linha_atual_str))
             THEN "Imports"
        ELSE IF IsSubstr(Marker.def, linha_atual_str) /\ ~IsSubstr(Marker.run, linha_atual_str)
             THEN "Metodos Customizados"
        ELSE "Estrutura Python"

\* Longest error line copied whole into the report, and what is kept of a
\* longer one before the dots.
LineLimit == 30
LineKept == 27

Sugestao(msg) ==
    IF msg = ParserMsg.colon THEN "Adicione dois pontos (:) ao final da linha"
    ELSE IF IsSubstr(ParserMsg.eof, msg) THEN "Verifique parenteses/colchetes nao fechados"
    ELSE IF IsSubstr(ParserMsg.indent, msg) THEN "Corrija a indentacao da linha"
    ELSE "Verifique a sintaxe Python na linha"

\* The `except SyntaxError` branch of _verify_ast.
SyntaxErrorHandler(res, linhas, e) ==
    LET inicio == Max(0, e.lineno - 3)
        fim == Min(Len(linhas), e.lineno + 2)
        contexto == Slice(linhas, inicio, fim)
        idx == e.lineno - inicio - 1
    IN  IF e.lineno > Len(linhas)
        THEN \* linhas[linha_atual] in _identificar_componente_com_erro
             Raise(res, "IndexError")
        ELSE LET componente_nome == _identificar_componente_com_erro(linhas, e.lineno)
                 r1 == add_error(res, Msg("Erro de sintaxe na linha", e.lineno, e.msg, ""), "")
                 r2 == add_error(r1, Msg("Componente", 0, <<>>, componente_nome), "")
             IN  IF contexto # <<>> /\ 0 <= idx /\ idx < Len(contexto)
                 THEN LET stripped == Strip(contexto[idx + 1])
                          linha_com_erro ==
                              IF Len(stripped) > LineLimit
                              THEN SubSeq(stripped, 1, LineKept) \o DOTS
                              ELSE stripped
                          r3 == add_error(r2, Msg("Codigo", 0, linha_com_erro, ""), "")
                      IN  add_error(r3, Msg("Sugestao", 0, <<>>, Sugestao(e.msg)), "")
                 ELSE r2

\* FirstToolClass that takes the first class whatever its name.
FirstToolClass_any(classes) == IF classes # <<>> THEN 1 ELSE 0

\* Index of the first ClassDef, in ast.walk order, whose name ends in 'Tool'
\* (0: none).
FirstToolClass(classes) ==
    IF \E i \in 1..Len(classes) : EndsWith(classes[i].name, Marker.Tool)
    THEN CHOOSE i \in 1..Len(classes) :
            /\ EndsWith(classes[i].name, Marker.Tool)
            /\ \A j \in 1..(i - 1) : ~EndsWith(classes[j].name, Marker.Tool)
    ELSE 0

\* _verify_ast: [res, ret], ret the value it returns.
_verify_ast(res, content) ==
    LET r0 == Called(add_info(res, Note("Analisando AST")), "read_text")
    IN  IF content.decode # "ok"
        THEN [res |-> add_error(r0, Note("Erro ao ler ou parsear o arquivo"), ""),
              ret |-> FALSE]
        ELSE
        LET r1 == Called(r0, "ast.parse")
        IN  IF content.parse.kind = "SyntaxError"
            THEN [res |-> SyntaxErrorHandler(r1, content.linhas, content.parse),
                  ret |-> FALSE]
            ELSE IF content.parse.kind # "ok"
            THEN [res |-> add_error(r1, Note("Erro ao ler ou parsear o arquivo"), ""),
                  ret |-> FALSE]
            ELSE
            LET r2 == add_info(r1, Note("Sintaxe do arquivo Python valida"))
                k == FirstToolClass(content.classes)
            IN  IF k = 0
                THEN [res |-> add_error(r2, Note("ERRO NA ESTRUTURA DA CLASSE"), ""),
                      ret |-> FALSE]
                ELSE
                LET node == content.classes[k]
                    r3 == add_info([r2 EXCEPT !.tool_class_name = Some(node.name)],
                                   Note("Classe AST encontrada"))
                    r4 == IF "BaseTool" \notin node.base_names
                          THEN add_warning(r3, Note("AVISO DE HERANCA"), "")
                          ELSE add_info(r3, Note("Heranca de BaseTool verificada na AST"))
                    r5 == IF ~node.has_run_def
                          THEN add_error(r4, Note("ERRO NO METODO _run"), "")
                          ELSE add_info(r4, Note("Metodo '_run' encontrado na AST"))
                IN  [res |-> r5, ret |-> TRUE]

\* The module attribute called `name` after the top-level code ran: the last
\* class of that name bound at module level (0: no such attribute).
ModuleMember(classes, name) ==
    IF \E i \in 1..Len(classes) : classes[i].name = name /\ classes[i].bound
    THEN CHOOSE i \in 1..Len(classes) :
            /\ classes[i].name = name /\ classes[i].bound
            /\ \A j \in (i + 1)..Len(classes) : ~(classes[j].name = name /\ classes[j].bound)
    ELSE 0

_verify_import_and_inspect(res, content) ==
    IF res.tool_class_name = None
    THEN add_warning(res, Note("Importacao pulada"), "")
    ELSE
    LET r0 == add_info(res, Note("Tentando importar dinamicamente o modulo"))
    IN  IF res.tool_path.file[1].suffix # ".py"
        THEN \* spec_from_file_location finds no loader
             add_error(r0, Note("Falha ao criar spec de importacao"), "")
        ELSE
        LET r1 == Called(r0, "exec_module")
        IN  IF content.exec = "Exception"
            THEN add_error(r1, Note("Erro durante a execucao do codigo do modulo"), "")
            ELSE IF content.exec # "ok"
            THEN Raise(r1, content.exec)
            ELSE
            LET r2 == add_info(r1, Note("Modulo importado com sucesso"))
                k == ModuleMember(content.classes, res.tool_class_name[1])
            IN  IF k = 0 \/ ~content.classes[k].is_basetool
                THEN add_error(r2, Note("Classe nao foi encontrada no modulo importado"), "")
                ELSE
                LET obj == content.classes[k]
                    r3 == add_info(r2, Note("Encontrada classe herdando de BaseTool"))
                    r4 == [r3 EXCEPT !.tool_class = Some(obj)]
                IN  IF ~obj.run_attr_callable
                    THEN add_error(r4, Note("Metodo '_run' nao encontrado ou nao chamavel"), "")
                    ELSE add_info(r4, Note("Metodo '_run' encontrado e chamavel"))

_verify_instance(res) ==
    IF res.tool_class = None
    THEN add_info(res, Note("Instanciacao pulada"))
    ELSE
    LET cls == res.tool_class[1]
        r0 == Called(add_info(res, Note("Tentando instanciar")), "instantiate")
    IN  IF cls.ctor = "Exception"
        THEN add_error(r0, Note("Falha na instanciacao"), "")
        ELSE IF cls.ctor # "ok"
        THEN Raise(r0, cls.ctor)
        ELSE
        LET r1 == [add_info(r0, Note("Instanciacao bem-sucedida")) EXCEPT
                       !.tool_instance = Some(cls)]
            r2 == IF ~cls.inst_name_str
                  THEN add_error(r1, Note("Atributo 'name' nao encontrado na INSTANCIA"), "")
                  ELSE add_info(r1, Note("Atributo 'name' encontrado na instancia"))
            r3 == IF ~cls.inst_description_str
                  THEN add_error(r2, Note("Atributo 'description' nao encontrado na INSTANCIA"), "")
                  ELSE add_info(r2, Note("Atributo 'description' encontrado na instancia"))
        IN  IF cls.args_schema = "absent"
            THEN add_error(r3, Note("Atributo 'args_schema' nao encontrado na instancia"), "")
            ELSE IF cls.args_schema # "model"
            THEN add_error(r3, Note("Atributo 'args_schema' nao e subclasse de BaseModel"), "")
            ELSE add_info(r3, Note("Atributo 'args_schema' encontrado na instancia"))

\* The messages whose text holds the word args_schema.
MentionsArgsSchema(error) ==
    error.msg.id \in {"Atributo 'args_schema' nao encontrado na instancia",
                      "Atributo 'args_schema' nao e subclasse de BaseModel"}

_verify_args_schema(res) ==
    LET cls == res.tool_instance[1]
    IN  IF cls.args_schema # "model"
        THEN IF ~\E i \in 1..Len(res.errors) : MentionsArgsSchema(res.errors[i])
             THEN add_warning(res, Note("Atributo 'args_schema' inesperadamente invalido"), "")
             ELSE res
        ELSE
        LET r0 == Called(add_info(res, Note("Verificando a validade do Pydantic Model")),
                         "model_json_schema")
        IN  IF cls.json_schema = "Exception"
            THEN add_error(r0, Note("Erro ao validar o Pydantic Model"), "")
            ELSE IF cls.json_schema = "SystemExit"
            THEN Raise(r0, cls.json_schema)
            ELSE IF cls.json_schema # "properties"
            THEN add_warning(r0, Note("O schema Pydantic parece vazio ou invalido"), "")
            ELSE add_info(r0, Note("Schema Pydantic parece valido"))

\* Path.exists(), Path.is_file()
Exists(dirs, files, p) == p \in dirs \/ p \in DOMAIN files
IsFile(files, p) == p \in DOMAIN files
\* Suffix that answers '.py' for every path.
Suffix_py(p) == ".py"

\* Path.suffix ; a directory name of the model has none
Suffix(p) == IF p.file = None THEN "" ELSE p.file[1].suffix

\* What a call leaves: the value returned (ret), the exception that escaped
\* ("none": the call returned) and the calls made into the environment.
Returned(ret, calls) == [ret |-> ret, raised |-> "none", calls |-> calls]

\* The stages of ToolVerifierTool.run after the import, each on the result
\* so far; an exception that left a stage ends the call.
\* An instance stage that instantiates whatever the load left.
InstanceStage_forced(r3) ==
    IF r3.raised = "none"
    THEN Called(add_info(r3, Note("Tentando instanciar")), "instantiate")
    ELSE r3

\* "4. Verificacao da Instancia"
InstanceStage(r3) ==
    IF r3.raised = "none" /\ r3.tool_class # None THEN _verify_instance(r3) ELSE r3

\* "5. Verificacao do Args Schema"
ArgsSchemaStage(r4) ==
    IF r4.raised # "none" THEN r4
    ELSE IF r4.tool_instance # None THEN _verify_args_schema(r4)
    ELSE add_warning(r4, Note("Verificacao do args_schema pulada"), "")

\* The closing entry, and the report built from the result.
SummaryStage(r5) ==
    IF r5.raised # "none" THEN r5
    ELSE add_info(
           IF r5.errors = <<>> /\ r5.warnings = <<>>
           THEN add_info(r5, Note("Verificacao concluida sem erros ou avisos criticos"))
           ELSE IF r5.errors = <<>>
           THEN add_warning(r5, Note("Verificacao concluida com avisos"), "")
           ELSE add_error(r5, Note("Verificacao concluida com erros criticos"), ""),
           Note("Verificacao finalizada"))

Report(res) == [ret |-> _build_result_dict(res), raised |-> res.raised, calls |-> res.calls]

\* ToolVerifierTool.run from the syntax stage on.
AfterAst(ast, content) ==
    IF ast.res.raised # "none" \/ ~ast.ret
    THEN Report(ast.res)
    ELSE Report(SummaryStage(ArgsSchemaStage(InstanceStage(
             _verify_import_and_inspect(ast.res, content)))))

\* ToolVerifierTool.run from the existence stage on.
AfterInit(dirs, files, res) ==
    IF ~Exists(dirs, files, res.tool_path)
    THEN Report(add_error(res, Note("Arquivo nao encontrado"), ""))
    ELSE IF ~IsFile(files, res.tool_path) \/ Suffix(res.tool_path) # ".py"
    THEN Report(add_error(res, Note("O caminho fornecido nao e um arquivo .py valido"), ""))
    ELSE AfterAst(_verify_ast(res, files[res.tool_path]), files[res.tool_path])

\* ToolVerifierTool.run ; tool_path is None or the path given.
run(dirs, files, tool_path) ==
    IF tool_path = None
    THEN Returned(MissingArgumentDict, <<>>)
    ELSE AfterInit(dirs, files,
                   add_info(ToolAnalysisResult(tool_path[1]), Note("Iniciando verificacao")))

\* ----------------------------------------------------- execution harness
Bases == {"cwd", "project_root", "crews_parent"}

\* The string a caller hands to the harness: an absolute path names the place
\* itself, a relative one is <top>/pdca/tools/<dir>/<file>.
CallerPath(isabs, base, top, dir, file) ==
    [isabs |-> isabs, base |-> base, top |-> top, dir |-> dir, file |-> file]
RelativePath(p) == CallerPath(FALSE, "cwd", p.top, p.dir, p.file)

\* caminhos_possiveis ; cwd_in_crews: the working directory is, or lies
\* under, a directory called 'crews'.
CaminhosPossiveis(caminho, cwd_in_crews) ==
    <<Path(IF caminho.isabs THEN caminho.base ELSE "cwd",
           caminho.top, caminho.dir, caminho.file)>>
    \o (IF ~caminho.isabs
        THEN <<Path("project_root", caminho.top, caminho.dir, caminho.file)>>
             \o (IF caminho.top = "crews" /\ cwd_in_crews
                 THEN <<Path("crews_parent", caminho.top, caminho.dir, caminho.file)>>
                 ELSE <<>>)
        ELSE <<>>)

\* The last candidate that exists (0: none).
CaminhoValido_last(dirs, files, candidatos) ==
    IF \E i \in 1..Len(candidatos) : Exists(dirs, files, candidatos[i])
    THEN CHOOSE i \in 1..Len(candidatos) :
            /\ Exists(dirs, files, candidatos[i])
            /\ \A j \in (i + 1)..Len(candidatos) : ~Exists(dirs, files, candidatos[j])
    ELSE 0

\* The first candidate that exists (0: none).
CaminhoValido(dirs, files, candidatos) ==
    IF \E i \in 1..Len(candidatos) : Exists(dirs, files, candidatos[i])
    THEN CHOOSE i \in 1..Len(candidatos) :
            /\ Exists(dirs, files, candidatos[i])
            /\ \A j \in 1..(i - 1) : ~Exists(dirs, files, candidatos[j])
    ELSE 0

\* The text the harness returns, by its parts: which message it is, and the
\* values formatted into it (<<>>: the message does not hold that value).
HarnessText(kind, caminho, nome_classe, parametros, erro, resultado, tentados) ==
    [kind |-> kind, caminho |-> caminho, nome_classe |-> nome_classe,
     parametros |-> parametros, erro |-> erro, resultado |-> resultado,
     tentados |-> tentados]

\* An `except` branch that leaves the arguments out of its text.
HarnessError_bare(caminho, nome_classe, parametros, erro) ==
    HarnessText("ERRO na Execucao de Ferramenta", Some(caminho), Some(nome_classe),
                None, Some(erro), None, <<>>)

\* The `except Exception` branch of ExecutarFerramentaTool._run.
HarnessError(caminho, nome_classe, parametros, erro) ==
    HarnessText("ERRO na Execucao de Ferramenta", Some(caminho), Some(nome_classe),
                Some(parametros), Some(erro), None, <<>>)

\* A call that takes any keyword arguments.
CallAccepts_any(obrigatorios, todos, parametros) == TRUE

\* Calling a function whose parameters are `todos`, those without a default
\* `obrigatorios`, with keyword arguments `parametros`.
CallAccepts(obrigatorios, todos, parametros) ==
    obrigatorios \subseteq parametros /\ parametros \subseteq todos

\* ExecutarFerramentaTool._run
ExecutarFerramentaTool_run(dirs, files, cwd_in_crews, caminho_ferramenta, nome_classe, parametros) ==
    LET caminhos_possiveis == CaminhosPossiveis(caminho_ferramenta, cwd_in_crews)
        v == CaminhoValido(dirs, files, caminhos_possiveis)
        erro(e, calls) == Returned(HarnessError(caminho_ferramenta, nome_classe, parametros, e), calls)
    IN  IF v = 0
        THEN Returned(HarnessText("ERRO: O arquivo nao foi encontrado", None, None, None,
                                  None, None, caminhos_possiveis), <<>>)
        ELSE
        LET caminho_valido == caminhos_possiveis[v]
        IN  IF Suffix(caminho_valido) # ".py"
            THEN \* spec_from_file_location finds no loader
                 Returned(HarnessText("ERRO: Nao foi possivel carregar o modulo",
                                      Some(caminho_valido), None, None, None, None, <<>>), <<>>)
            ELSE
            LET content == files[caminho_valido]
                c1 == <<"exec_module">>
            IN  IF content.decode # "ok" THEN erro("UnicodeDecodeError", c1)
                ELSE IF content.parse.kind # "ok" THEN erro(content.parse.kind, c1)
                ELSE IF content.exec = "Exception" THEN erro("Exception", c1)
                ELSE IF content.exec # "ok"
                THEN [ret |-> HarnessError(caminho_ferramenta, nome_classe, parametros, ""),
                      raised |-> content.exec, calls |-> c1]
                ELSE
                LET k == ModuleMember(content.classes, nome_classe)
                IN  IF k = 0
                    THEN Returned(HarnessText("ERRO: A classe nao foi encontrada no modulo",
                                              Some(caminho_valido), Some(nome_classe), None,
                                              None, None, <<>>), c1)
                    ELSE
                    LET classe_ferramenta == content.classes[k]
                        c2 == Append(c1, "instantiate")
                    IN  IF classe_ferramenta.ctor = "Exception" THEN erro("Exception", c2)
                        ELSE IF classe_ferramenta.ctor # "ok"
                        THEN [ret |-> HarnessError(caminho_ferramenta, nome_classe, parametros, ""),
                              raised |-> classe_ferramenta.ctor, calls |-> c2]
                        ELSE IF ~classe_ferramenta.has_run_method
                        THEN Returned(HarnessText("ERRO: A classe nao possui um metodo 'run'",
                                                  None, Some(nome_classe), None, None, None,
                                                  <<>>), c2)
                        ELSE
                        LET c3 == Append(c2, "run")
                        IN  IF ~CallAccepts(classe_ferramenta.obrigatorios,
                                            classe_ferramenta.todos, parametros)
                            THEN erro("TypeError", c3)
                            ELSE IF classe_ferramenta.entry = "Exception"
                            THEN erro("Exception", c3)
                            ELSE IF classe_ferramenta.entry # "ok"
                            THEN [ret |-> HarnessError(caminho_ferramenta, nome_classe,
                                                       parametros, ""),
                                  raised |-> classe_ferramenta.entry, calls |-> c3]
                            ELSE Returned(HarnessText("Execucao de Ferramenta",
                                                      Some(caminho_ferramenta), Some(nome_classe),
                                                      Some(parametros), None,
                                                      Some(classe_ferramenta.value), <<>>), c3)

\* ------------------------------------------------------- synthesis engine
\* Pieces of the text DynamicToolCreator derives or writes, and of the
\* fragments handed to it.
Text ==
    [tool |-> <<"_", "t", "o", "o", "l">>,
     Parameters |-> <<"P", "a", "r", "a", "m", "e", "t", "e", "r", "s">>,
     init |-> <<"_", "_", "i", "n", "i", "t", "_", "_">>,
     class |-> <<"c", "l", "a", "s", "s", " ">>,
     BaseTool_colon |-> <<"(", "B", "a", "s", "e", "T", "o", "o", "l", ")", ":">>,
     BaseModel_colon |-> <<"(", "B", "a", "s", "e", "M", "o", "d", "e", "l", ")",
              ":">>,
     def_run |-> <<" ", " ", " ", " ", "d", "e", "f", " ", "_", "r", "u", "n", "(",
              "s", "e", "l", "f">>,
     sep |-> <<",", " ">>,
     close |-> <<")", ":">>,
     indent4 |-> <<" ", " ", " ", " ">>,
     indent8 |-> <<" ", " ", " ", " ", " ", " ", " ", " ">>,
     field |-> <<":", " ", "A", "n", "y", " ", "=", " ", "F", "i", "e", "l", "d",
              "(">>,
     main |-> <<"i", "f", " ", "_", "_", "n", "a", "m", "e", "_", "_", " ", "=",
              "=", " ", "'", "_", "_", "m", "a", "i", "n", "_", "_", "'", ":">>,
     main_tool |-> <<" ", " ", " ", " ", "t", "o", "o", "l", " ", "=", " ">>,
     call |-> <<"(", ")">>,
     main_run |-> <<" ", " ", " ", " ", "r", "e", "s", "u", "l", "t", " ", "=", " ",
              "t", "o", "o", "l", ".", "r", "u", "n", "(", ")">>,
     main_print |-> <<" ", " ", " ", " ", "p", "r", "i", "n", "t", "(", "r", "e",
              "s", "u", "l", "t", ")">>,
     import_typing |-> <<"f", "r", "o", "m", " ", "t", "y", "p", "i", "n", "g", " ",
              "i", "m", "p", "o", "r", "t", " ", "D", "i", "c", "t", ",", " ", "L",
              "i", "s", "t", ",", " ", "A", "n", "y", ",", " ", "O", "p", "t", "i",
              "o", "n", "a", "l", ",", " ", "T", "y", "p", "e">>,
     import_pydantic |-> <<"f", "r", "o", "m", " ", "p", "y", "d", "a", "n", "t",
              "i", "c", " ", "i", "m", "p", "o", "r", "t", " ", "B", "a", "s", "e",
              "M", "o", "d", "e", "l", ",", " ", "F", "i", "e", "l", "d">>,
     import_crewai |-> <<"f", "r", "o", "m", " ", "c", "r", "e", "w", "a", "i", ".",
              "t", "o", "o", "l", "s", " ", "i", "m", "p", "o", "r", "t", " ", "B",
              "a", "s", "e", "T", "o", "o", "l">>,
     import_os |-> <<"i", "m", "p", "o", "r", "t", " ", "o", "s">>,
     import_missing |-> <<"i", "m", "p", "o", "r", "t", " ", "p", "a", "c", "o",
              "t", "e", "_", "a", "u", "s", "e", "n", "t", "e">>,
     import_bad |-> <<"i", "m", "p", "o", "r", "t", " ", "(">>,
     return_ok |-> <<"r", "e", "t", "u", "r", "n", " ", "'", "o", "k", "'">>,
     return_bad |-> <<"r", "e", "t", "u", "r", "n", " ", "(">>,
     raise |-> <<"r", "a", "i", "s", "e", " ", "V", "a", "l", "u", "e", "E", "r",
              "r", "o", "r", "(", "'", "x", "'", ")">>,
     exit |-> <<"r", "a", "i", "s", "e", " ", "S", "y", "s", "t", "e", "m", "E",
              "x", "i", "t", "(", "1", ")">>,
     def_process |-> <<"d", "e", "f", " ", "p", "r", "o", "c", "e", "s", "s", "(",
              "s", "e", "l", "f", ",", " ", "p", "a", "t", "h", ")", ":">>,
     body_ok |-> <<" ", " ", " ", " ", "r", "e", "t", "u", "r", "n", " ", "'", "o",
              "k", "'">>,
     def_a |-> <<"d", "e", "f", " ", "a", "(", "s", "e", "l", "f", ")", ":">>,
     def_b |-> <<"d", "e", "f", " ", "b", "(", "s", "e", "l", "f", ")", ":">>,
     pass |-> <<" ", " ", " ", " ", "p", "a", "s", "s">>,
     def_bad |-> <<"d", "e", "f", " ", "c", "(", "s", "e", "l", "f", ":">>,
     p |-> <<"p">>,
     q |-> <<"q">>]

\* A source fragment handed in by the caller, with what ast.parse answers for
\* it: its lines, the parse result, the statements of the parsed body, and
\* what running it does.
Frag(linhas, parse, stmts, effect) ==
    [linhas |-> linhas, parse |-> parse, stmts |-> stmts, effect |-> effect]
Stmt(kind, name, pass_only) == [kind |-> kind, name |-> name, pass_only |-> pass_only]

\* ToolParameter(name, type, description, required, default); default None
\* is <<>>.
ToolParameter(name, type, required, default) ==
    [name |-> name, type |-> type, required |-> required, default |-> default]

ToolDefinition(name, parameters, implementation, imports, custom_methods) ==
    [name |-> name, parameters |-> parameters, implementation |-> implementation,
     imports |-> imports, custom_methods |-> custom_methods]

RECURSIVE verificar_metodos_vazios(_)
verificar_metodos_vazios(custom_methods) ==
    IF custom_methods = <<>> THEN <<>>
    ELSE LET metodo == Head(custom_methods)
             resto == verificar_metodos_vazios(Tail(custom_methods))
         IN  IF metodo.parse.kind # "ok" \/ metodo.stmts = <<>>
             THEN resto   \* except Exception: continue
             ELSE IF metodo.stmts[1].kind = "FunctionDef" /\ metodo.stmts[1].pass_only
             THEN <<metodo.stmts[1].name>> \o resto
             ELSE resto

\* The fallback default of an optional parameter without a default.
TypeFallback(type) ==
    IF type = "string" THEN "''"
    ELSE IF type = "integer" \/ type = "number" THEN "0"
    ELSE IF type = "boolean" THEN "False"
    ELSE IF type = "array" THEN "[]"
    ELSE IF type = "object" THEN "{}"
    ELSE "None"

DefaultValue(param) ==
    IF param.default # None THEN param.default[1] ELSE TypeFallback(param.type)

_get_type_annotation(param_type) ==
    IF param_type = "string" THEN "str"
    ELSE IF param_type = "integer" THEN "int"
    ELSE IF param_type = "number" THEN "float"
    ELSE IF param_type = "boolean" THEN "bool"
    ELSE IF param_type = "array" THEN "List[Any]"
    ELSE IF param_type = "object" THEN "Dict[str, Any]"
    ELSE "Any"

StandardImports ==
    <<Frag(<<Text.import_typing>>, ParseOk, <<Stmt("ImportFrom", "typing", FALSE)>>, "ok"),
      Frag(<<Text.import_pydantic>>, ParseOk, <<Stmt("ImportFrom", "pydantic", FALSE)>>, "ok"),
      Frag(<<Text.import_crewai>>, ParseOk, <<Stmt("ImportFrom", "crewai.tools", FALSE)>>, "ok")>>

RECURSIVE Unique(_, _)
\* "Remove duplicatas mantendo a ordem"
Unique(all_imports, seen) ==
    IF all_imports = <<>> THEN <<>>
    ELSE IF Head(all_imports) \in seen THEN Unique(Tail(all_imports), seen)
    ELSE <<Head(all_imports)>> \o Unique(Tail(all_imports), seen \cup {Head(all_imports)})

\* A parse of the fragments that never fails.
FirstFailure_none(frags) == "none"

\* The first fragment of a list that ast.parse(...).body[0] fails on, as the
\* exception raised ("none": every fragment yields a statement).
FirstFailure(frags) ==
    IF \E i \in 1..Len(frags) : frags[i].parse.kind # "ok" \/ frags[i].stmts = <<>>
    THEN LET i == CHOOSE i \in 1..Len(frags) :
                     /\ frags[i].parse.kind # "ok" \/ frags[i].stmts = <<>>
                     /\ \A j \in 1..(i - 1) : frags[j].parse.kind = "ok" /\ frags[j].stmts # <<>>
         IN  IF frags[i].parse.kind # "ok" THEN frags[i].parse.kind ELSE "IndexError"
    ELSE "none"

\* What the caller of ast.parse(...).body[0] gets for the first fragment of a
\* list that fails: the SyntaxError of the parser with its message, its line
\* number and the text of that line (e.text), or the IndexError of body[0].
ParseError(frags) ==
    LET i == CHOOSE i \in 1..Len(frags) :
                 /\ frags[i].parse.kind # "ok" \/ frags[i].stmts = <<>>
                 /\ \A j \in 1..(i - 1) : frags[j].parse.kind = "ok" /\ frags[j].stmts # <<>>
        e == frags[i].parse
    IN  IF e.kind # "ok"
        THEN [kind |-> e.kind, msg |-> e.msg, linha |-> e.lineno, inicio |-> e.lineno - 1,
              contexto |-> IF e.lineno \in 1..Len(frags[i].linhas)
                           THEN <<frags[i].linhas[e.lineno]>> ELSE <<>>]
        ELSE [kind |-> "IndexError", msg |-> <<>>, linha |-> 0, inicio |-> 0,
              contexto |-> <<>>]

\* The SyntaxError _create_run_method raises for an implementation that does
\* not parse: "Contexto do erro (3 linhas antes e depois)".
ImplementationSyntaxError(implementation) ==
    LET erro_linha == implementation.parse.lineno
        linhas_codigo == implementation.linhas
        inicio == Max(0, erro_linha - 4)
        fim == Min(Len(linhas_codigo), erro_linha + 3)
    IN  [kind |-> "ERRO DE SINTAXE NA IMPLEMENTACAO", msg |-> implementation.parse.msg,
         linha |-> erro_linha, inicio |-> inicio,
         contexto |-> Slice(linhas_codigo, inicio, fim)]

\* ToolASTBuilder.add_imports: the import statements of the module.
add_imports(tool_def) == Unique(StandardImports \o tool_def.imports, {})

\* A class of a module: what the AST shows of it (name, base_names,
\* has_run_def) and what it is once the module is loaded.
ClassDef(name, base_names, has_run_def) ==
    [name |-> name, base_names |-> base_names, has_run_def |-> has_run_def,
     bound |-> TRUE, is_basetool |-> FALSE, run_attr_callable |-> FALSE,
     ctor |-> "ok", inst_name_str |-> FALSE, inst_description_str |-> FALSE,
     args_schema |-> "absent", json_schema |-> "properties",
     has_run_method |-> FALSE, obrigatorios |-> {}, todos |-> {},
     entry |-> "ok", value |-> "", args |-> <<>>, defaults |-> <<>>]

CleanName(name) == ReplaceChar(name, " ", <<>>)

\* default_value of create_parameter_model for an optional parameter: the
\* literal written after `default=`.
FieldDefault(param) ==
    IF param.default # None THEN param.default[1]
    ELSE IF param.type = "string" THEN "''"
    ELSE IF param.type = "integer" \/ param.type = "number" THEN "0"
    ELSE IF param.type = "boolean" THEN "False"
    ELSE IF param.type = "array" THEN "[]"
    ELSE IF param.type = "object" THEN "{}"
    ELSE "None"

RECURSIVE FieldDefaults(_)
FieldDefaults(parameters) ==
    IF parameters = <<>> THEN <<>>
    ELSE (IF ~Head(parameters).required THEN <<FieldDefault(Head(parameters))>> ELSE <<>>)
         \o FieldDefaults(Tail(parameters))

\* ToolASTBuilder.create_parameter_model: a pydantic model with one field per
\* parameter (args) and the defaults of its optional fields, in the order of
\* the fields; constructing it without arguments fails when a field is
\* required.
create_parameter_model(tool_def) ==
    [ClassDef(CleanName(tool_def.name) \o Text.Parameters, {"BaseModel"}, FALSE) EXCEPT
        !.args = [i \in 1..Len(tool_def.parameters) |-> tool_def.parameters[i].name],
        !.defaults = FieldDefaults(tool_def.parameters),
        !.ctor = IF \E i \in 1..Len(tool_def.parameters) : tool_def.parameters[i].required
                 THEN "Exception" ELSE "ok",
        !.todos = {tool_def.parameters[i].name : i \in 1..Len(tool_def.parameters)}]

\* The defaults list of _create_run_method: one entry per optional parameter.
RECURSIVE RunDefaults(_)
RunDefaults(parameters) ==
    IF parameters = <<>> THEN <<>>
    ELSE (IF ~Head(parameters).required THEN <<DefaultValue(Head(parameters))>> ELSE <<>>)
         \o RunDefaults(Tail(parameters))

\* ast.arguments(args, defaults): the defaults belong to the last
\* Len(defaults) arguments; the others are required.
RequiredArgs(args, defaults) ==
    {args[i] : i \in 1..(Len(args) - Len(defaults))}

\* ToolASTBuilder.create_tool_class with _create_run_method: the class of the
\* tool, its _run taking the parameters and running the implementation.
create_tool_class(tool_def) ==
    LET args == [i \in 1..Len(tool_def.parameters) |-> tool_def.parameters[i].name]
        defaults == RunDefaults(tool_def.parameters)
    IN  [ClassDef(CleanName(tool_def.name) \o Marker.Tool, {"BaseTool"}, TRUE) EXCEPT
            !.is_basetool = TRUE, !.run_attr_callable = TRUE,
            !.inst_name_str = TRUE, !.inst_description_str = TRUE,
            !.args_schema = "model", !.has_run_method = TRUE,
            !.args = args, !.defaults = defaults,
            !.obrigatorios = RequiredArgs(args, defaults),
            !.todos = {args[i] : i \in 1..Len(args)},
            !.entry = tool_def.implementation.effect,
            !.value = "ok"]

Indent(prefix, linhas) == [i \in 1..Len(linhas) |-> prefix \o linhas[i]]

RECURSIVE FragLines(_)
FragLines(frags) ==
    IF frags = <<>> THEN <<>> ELSE Head(frags).linhas \o FragLines(Tail(frags))

RECURSIVE ArgList(_)
ArgList(args) == IF args = <<>> THEN <<>> ELSE Text.sep \o Head(args) \o ArgList(Tail(args))

\* The lines astor.to_source writes for the tree (annotations, defaults, the
\* description table and blank lines left out), and the line of the
\* `if __name__` block in them.
ClassLines(tool_def) ==
    (IF tool_def.parameters # <<>>
     THEN <<Text.class \o CleanName(tool_def.name) \o Text.Parameters \o Text.BaseModel_colon>>
          \o [i \in 1..Len(tool_def.parameters) |->
                 Text.indent4 \o tool_def.parameters[i].name \o Text.field]
     ELSE <<>>)
    \o <<Text.class \o CleanName(tool_def.name) \o Marker.Tool \o Text.BaseTool_colon>>
    \o Indent(Text.indent4, FragLines(tool_def.custom_methods))
    \o <<Text.def_run
         \o ArgList([i \in 1..Len(tool_def.parameters) |-> tool_def.parameters[i].name])
         \o Text.close>>
    \o Indent(Text.indent8, tool_def.implementation.linhas)

MainLines(tool_def) ==
    <<Text.main, Text.main_tool \o CleanName(tool_def.name) \o Marker.Tool \o Text.call,
      Text.main_run, Text.main_print>>

\* ToolASTBuilder.generate_code and the file it is written to: the text, what
\* the parser answers for it (a _run without statements is written as a bare
\* header, and the next line is no indented block), its classes, and what
\* its top-level code does (an import of a missing module raises).
generate_code(tool_def) ==
    LET imports == add_imports(tool_def)
        head == FragLines(imports) \o ClassLines(tool_def)
    IN  [linhas |-> head \o MainLines(tool_def),
         decode |-> "ok",
         parse |-> IF tool_def.implementation.stmts = <<>>
                   THEN ParseSyntaxError(Len(head) + 1, ParserMsg.block)
                   ELSE ParseOk,
         classes |-> (IF tool_def.parameters # <<>>
                      THEN <<create_parameter_model(tool_def)>> ELSE <<>>)
                     \o <<create_tool_class(tool_def)>>,
         exec |-> IF \E i \in 1..Len(imports) : imports[i].effect # "ok"
                  THEN "Exception" ELSE "ok"]

\* The __init__.py written beside the first tool of a directory: it imports
\* the class from the tool's module, which fails when the file is loaded on
\* its own.
InitFile(module_stem, class_name) ==
    [linhas |-> <<>>, decode |-> "ok", parse |-> ParseOk, classes |-> <<>>,
     exec |-> "Exception",
     reexport |-> Some([module |-> module_stem, class |-> class_name])]

SmokeTestTypes == {"string", "integer", "boolean", "array", "object"}

\* parametros_teste: a value for the required parameters of these types.
ParametrosTeste(parameters) ==
    {parameters[i].name : i \in {j \in 1..Len(parameters) :
        parameters[j].required /\ parameters[j].type \in SmokeTestTypes}}

\* The text DynamicToolCreator._run returns, by its parts: the error naming
\* the empty methods, or the report on the tool with the verifier's findings
\* and the harness's answer (<<>>: the harness was not called).
CreatorText(kind, metodos_vazios, sucesso, erros, avisos, teste) ==
    [kind |-> kind, metodos_vazios |-> metodos_vazios, sucesso |-> sucesso,
     erros |-> erros, avisos |-> avisos, teste |-> teste]

\* What a DynamicToolCreator._run call leaves behind.
Created(ret, raised, calls, dirs, files, verificacao, execucao) ==
    [ret |-> ret, raised |-> raised, calls |-> calls, dirs |-> dirs, files |-> files,
     verificacao |-> verificacao, execucao |-> execucao]

NoText == CreatorText("", <<>>, FALSE, <<>>, <<>>, None)

\* A gate that lets every report through.
verificacao_sucesso_open(verificacao_dict) == TRUE

\* `if verificacao_sucesso:` with verificacao_dict.get("sucesso", False)
verificacao_sucesso(verificacao_dict) == verificacao_dict.sucesso

\* DynamicToolCreator._run after the harness answered.
AfterExecute(parameters, verificacao, calls3, dirs1, files2, execucao) ==
    LET \* an error answer to placebo string values is left out
        oculto == /\ \E i \in 1..Len(parameters) :
                        parameters[i].required /\ parameters[i].type = "string"
                  /\ execucao.ret.kind # "Execucao de Ferramenta"
        teste == [oculto |-> oculto,
                  resultado |-> IF oculto THEN None ELSE Some(execucao.ret)]
    IN  Created(CreatorText("Ferramenta Criada", <<>>, TRUE, verificacao.ret.erros,
                            verificacao.ret.avisos, Some(teste)),
                execucao.raised, calls3 \o <<"execute">> \o execucao.calls, dirs1, files2,
                Some(verificacao), Some(execucao))

\* DynamicToolCreator._run after the verifier answered: the report, and the
\* smoke test when the verification succeeded.
AfterVerify(name, parameters, cwd_in_crews, dirs1, files2, tool_file_path, calls2, verificacao) ==
    IF verificacao.raised # "none"
    THEN Created(NoText, verificacao.raised, calls2 \o verificacao.calls, dirs1, files2,
                 Some(verificacao), None)
    ELSE IF ~verificacao_sucesso(verificacao.ret)
    THEN Created(CreatorText("Ferramenta Criada", <<>>, FALSE, verificacao.ret.erros,
                             verificacao.ret.avisos, None),
                 "none", calls2 \o verificacao.calls, dirs1, files2, Some(verificacao), None)
    ELSE AfterExecute(parameters, verificacao, calls2 \o verificacao.calls, dirs1, files2,
             ExecutarFerramentaTool_run(dirs1, files2, cwd_in_crews,
                 RelativePath(tool_file_path), CleanName(name) \o Marker.Tool,
                 ParametrosTeste(parameters)))

\* DynamicToolCreator._run after the tool file was written: __init__.py is
\* written when the directory has none, then the file is verified.
AfterWrite(name, parameters, cwd_in_crews, dirs1, files1, tool_file_path) ==
    LET init_file_path == [tool_file_path EXCEPT !.file = Some(FileName(Text.init, ".py"))]
        wrote_init == init_file_path \notin DOMAIN files1
        files2 == IF wrote_init
                  THEN (init_file_path :> InitFile(tool_file_path.file[1].stem,
                                                   CleanName(name) \o Marker.Tool)) @@ files1
                  ELSE files1
    IN  AfterVerify(name, parameters, cwd_in_crews, dirs1, files2, tool_file_path,
                    <<"mkdir", "write_tool">>
                    \o (IF wrote_init THEN <<"write_init">> ELSE <<>>) \o <<"verify">>,
                    run(dirs1, files2, Some(tool_file_path)))

\* DynamicToolCreator._run once the directory exists: the empty-method check,
\* the construction of the tree, and the rest of the pipeline.
AfterMkdir(dirs1, files, cwd_in_crews, tool_file_path, tool_def, metodos_vazios) ==
    IF metodos_vazios # <<>>
    THEN Created(CreatorText("ERRO: metodos auxiliares vazios", metodos_vazios,
                             FALSE, <<>>, <<>>, None),
                 "none", <<"mkdir">>, dirs1, files, None, None)
    ELSE IF FirstFailure(add_imports(tool_def)) # "none"
    THEN Created(ParseError(add_imports(tool_def)), FirstFailure(add_imports(tool_def)),
                 <<"mkdir">>, dirs1, files, None, None)
    ELSE IF FirstFailure(tool_def.custom_methods) # "none"
    THEN Created(ParseError(tool_def.custom_methods), FirstFailure(tool_def.custom_methods),
                 <<"mkdir">>, dirs1, files, None, None)
    ELSE IF tool_def.implementation.parse.kind # "ok"
    THEN Created(IF tool_def.implementation.parse.kind = "SyntaxError"
                 THEN ImplementationSyntaxError(tool_def.implementation)
                 ELSE ParseError(<<tool_def.implementation>>),
                 tool_def.implementation.parse.kind, <<"mkdir">>, dirs1, files, None, None)
    ELSE AfterWrite(tool_def.name, tool_def.parameters, cwd_in_crews, dirs1,
                    (tool_file_path :> (generate_code(tool_def) @@ [reexport |-> None]))
                    @@ files,
                    tool_file_path)

\* DynamicToolCreator._run
DynamicToolCreator_run(dirs, files, cwd_in_crews, name, parameters, implementation, imports, custom_methods) ==
    LET tool_dir_name == ReplaceChar(Lower(name), " ", <<>>) \o Text.tool
        tool_file_name == FileName(ReplaceChar(Lower(name), " ", <<"_">>) \o Text.tool, ".py")
    IN  AfterMkdir(dirs \cup {Path("cwd", "crews", tool_dir_name, None)}, files, cwd_in_crews,
                   Path("cwd", "crews", tool_dir_name, Some(tool_file_name)),
                   ToolDefinition(name, parameters, implementation, imports, custom_methods),
                   verificar_metodos_vazios(custom_methods))

\* ------------------------------------------------------------ sample inputs
\* What the callers hand to the three tools.  Each sample list varies one
\* thing about a well-formed input.

\* A file as the tools read it.
Source(linhas, parse, classes, exec) ==
    [linhas |-> linhas, decode |-> "ok", parse |-> parse, classes |-> classes,
     exec |-> exec, reexport |-> None]

\* A hand-written tool class that has everything the verifier asks for.
ToolClass(name) ==
    [ClassDef(name, {"BaseTool"}, TRUE) EXCEPT
        !.is_basetool = TRUE, !.run_attr_callable = TRUE,
        !.inst_name_str = TRUE, !.inst_description_str = TRUE,
        !.args_schema = "model", !.has_run_method = TRUE, !.value = "ok"]

\* Class names of the sample files and of the harness's callers.
ClassName ==
    [ATool |-> <<"A", "T", "o", "o", "l">>,
     BTool |-> <<"B", "T", "o", "o", "l">>,
     Helper |-> <<"H", "e", "l", "p", "e", "r">>]

\* Texts of the sample files.
Src ==
    [Good |-> <<Line.import, Line.class, Line.name, Line.run, Line.ret>>,
     Header |-> <<Line.import, Line.class_bad, Line.name, Line.run, Line.ret>>,
     Long |-> <<Line.import, Line.class, Line.aux, Line.long_bad>>,
     Indent |-> <<Line.x, Line.indent>>,
     OneLine |-> <<Line.class_bad>>,
     Eof |-> <<Line.x, Line.bslash>>]

GoodArtifact == Source(Src.Good, ParseOk, <<ToolClass(ClassName.ATool)>>, "ok")

\* GoodArtifact with its class changed.
WithClass(cls) == [GoodArtifact EXCEPT !.classes = <<cls>>]

\* Files that do not parse, with the line and message CPython 3.11 reports.
SyntaxErrorArtifacts ==
    {Source(Src.Header, ParseSyntaxError(2, ParserMsg.colon), <<>>, "ok"),
     Source(Src.Long, ParseSyntaxError(4, ParserMsg.never_closed), <<>>, "ok"),
     Source(Src.Indent, ParseSyntaxError(2, ParserMsg.indent), <<>>, "ok"),
     Source(Src.OneLine, ParseSyntaxError(1, ParserMsg.colon), <<>>, "ok"),
     Source(Src.Eof, ParseSyntaxError(2, ParserMsg.eof_full), <<>>, "ok")}

\* Files that parse and hold no class whose name ends in 'Tool'.
NoToolClassArtifacts ==
    {Source(<<Line.x>>, ParseOk, <<>>, "ok"),
     WithClass(ToolClass(ClassName.Helper))}

\* Files whose tool class defines no _run: BaseTool declares _run abstract,
\* so the attribute is there and the class cannot be instantiated; a base
\* that is not abstract lets it be.
MissingRunArtifacts ==
    {WithClass([ToolClass(ClassName.ATool) EXCEPT !.has_run_def = FALSE, !.ctor = "Exception"]),
     WithClass([ToolClass(ClassName.ATool) EXCEPT !.has_run_def = FALSE])}

\* Files whose code ends the process or raises when it runs.
RunningArtifacts ==
    {[GoodArtifact EXCEPT !.exec = o] : o \in Outcomes \ {"ok"}}
    \cup {WithClass([ToolClass(ClassName.ATool) EXCEPT !.ctor = o]) : o \in Outcomes \ {"ok"}}
    \cup {WithClass([ToolClass(ClassName.ATool) EXCEPT !.json_schema = o]) : o \in Outcomes \ {"ok"}}

\* Files with a tool class that lacks one of the things the verifier asks for.
DeficientArtifacts ==
    {[GoodArtifact EXCEPT !.decode = "Exception"],
     [GoodArtifact EXCEPT !.parse = ParseOtherError],
     WithClass([ToolClass(ClassName.ATool) EXCEPT !.base_names = {}, !.is_basetool = FALSE]),
     WithClass([ToolClass(ClassName.ATool) EXCEPT !.bound = FALSE]),
     WithClass([ToolClass(ClassName.ATool) EXCEPT !.run_attr_callable = FALSE]),
     WithClass([ToolClass(ClassName.ATool) EXCEPT !.inst_name_str = FALSE]),
     WithClass([ToolClass(ClassName.ATool) EXCEPT !.inst_description_str = FALSE]),
     WithClass([ToolClass(ClassName.ATool) EXCEPT !.args_schema = "absent"]),
     WithClass([ToolClass(ClassName.ATool) EXCEPT !.args_schema = "other"]),
     WithClass([ToolClass(ClassName.ATool) EXCEPT !.json_schema = "empty"])}

VerifierArtifacts ==
    {GoodArtifact} \cup SyntaxErrorArtifacts \cup NoToolClassArtifacts
    \cup MissingRunArtifacts \cup RunningArtifacts \cup DeficientArtifacts

\* Files for the harness: what matters to it is the load, the constructor,
\* the run method and the entry point.
HarnessArtifacts ==
    {GoodArtifact,
     WithClass([ToolClass(ClassName.ATool) EXCEPT !.obrigatorios = {Text.p}, !.todos = {Text.p, Text.q}]),
     WithClass([ToolClass(ClassName.ATool) EXCEPT !.has_run_method = FALSE]),
     Source(Src.OneLine, ParseSyntaxError(1, ParserMsg.colon), <<>>, "ok"),
     [GoodArtifact EXCEPT !.decode = "Exception"]}
    \cup {[GoodArtifact EXCEPT !.exec = o] : o \in Outcomes \ {"ok"}}
    \cup {WithClass([ToolClass(ClassName.ATool) EXCEPT !.ctor = o]) : o \in Outcomes \ {"ok"}}
    \cup {WithClass([ToolClass(ClassName.ATool) EXCEPT !.entry = o]) : o \in Outcomes \ {"ok"}}

\* Where the hand-written files are put.
SampleDir(base) == Path(base, "crews", <<"a">> \o Text.tool, None)
SamplePy(base) == [SampleDir(base) EXCEPT !.file = Some(FileName(<<"a">> \o Text.tool, ".py"))]
SampleTxt(base) == [SampleDir(base) EXCEPT !.file = Some(FileName(<<"a">> \o Text.tool, ".txt"))]
MissingPy(base) == [SampleDir(base) EXCEPT !.file = Some(FileName(<<"b">> \o Text.tool, ".py"))]

\* Paths handed to the verifier.
VerifierPaths ==
    {None, Some(SamplePy("cwd")), Some(SampleTxt("cwd")), Some(SampleDir("cwd")),
     Some(MissingPy("cwd"))}

\* Paths handed to the harness: relative ones under crews/ and under another
\* first component, and absolute ones.
HarnessPaths ==
    {RelativePath(SamplePy("cwd")), RelativePath(SampleTxt("cwd")),
     RelativePath(MissingPy("cwd")),
     RelativePath([SamplePy("cwd") EXCEPT !.top = "src"])}
    \cup {CallerPath(TRUE, b, "crews", SamplePy(b).dir, SamplePy(b).file) : b \in Bases}

\* Fragments of source handed to DynamicToolCreator.
Impl ==
    [Ok |-> Frag(<<Text.return_ok>>, ParseOk, <<Stmt("Return", "", FALSE)>>, "ok"),
     Empty |-> Frag(<<>>, ParseOk, <<>>, "ok"),
     Bad |-> Frag(<<Text.return_bad>>, ParseSyntaxError(1, ParserMsg.never_closed), <<>>,
          "ok"),
     BadMiddle |-> Frag(<<Line.x, Line.x, Line.x, Line.x, Text.return_bad, Line.x, Line.x,
          Line.x, Line.x>>, ParseSyntaxError(5, ParserMsg.never_closed), <<>>, "ok"),
     Raise |-> Frag(<<Text.raise>>, ParseOk, <<Stmt("Raise", "", FALSE)>>, "Exception"),
     Exit |-> Frag(<<Text.exit>>, ParseOk, <<Stmt("Raise", "", FALSE)>>, "SystemExit")]

\* Import statements handed to DynamicToolCreator.
Import ==
    [Os |-> Frag(<<Text.import_os>>, ParseOk, <<Stmt("Import", "os", FALSE)>>, "ok"),
     Missing |-> Frag(<<Text.import_missing>>, ParseOk, <<Stmt("Import", "pacote_ausente",
          FALSE)>>, "Exception"),
     Bad |-> Frag(<<Text.import_bad>>, ParseSyntaxError(1, ParserMsg.invalid), <<>>, "ok"),
     Empty |-> Frag(<<>>, ParseOk, <<>>, "ok")]

\* Custom methods handed to DynamicToolCreator.
Method ==
    [Process |-> Frag(<<Text.def_process, Text.body_ok>>, ParseOk, <<Stmt("FunctionDef",
          "process", FALSE)>>, "ok"),
     A |-> Frag(<<Text.def_a, Text.pass>>, ParseOk, <<Stmt("FunctionDef", "a", TRUE)>>,
          "ok"),
     B |-> Frag(<<Text.def_b, Text.pass>>, ParseOk, <<Stmt("FunctionDef", "b", TRUE)>>,
          "ok"),
     Bad |-> Frag(<<Text.def_bad>>, ParseSyntaxError(1, ParserMsg.never_closed), <<>>, "ok"),
     BadLong |-> Frag(<<Text.def_a>> \o Indent(Text.indent4, <<Line.x, Line.x, Line.x,
          Line.x, Line.indent, Line.x, Line.x, Line.x, Line.x>>), ParseSyntaxError(6,
          ParserMsg.indent), <<>>, "ok"),
     Assign |-> Frag(<<Line.x>>, ParseOk, <<Stmt("Assign", "x", FALSE)>>, "ok")]

ToolNames == {<<"A">>, <<"a">>, <<"A", " ", "a">>, <<" ">>, <<>>}

ParameterLists ==
    {<<ToolParameter(Text.p, "string", TRUE, None)>>,
     <<ToolParameter(Text.p, "integer", FALSE, None)>>,
     <<ToolParameter(Text.p, "number", TRUE, None)>>,
     <<ToolParameter(Text.p, "boolean", FALSE, Some("True")),
       ToolParameter(Text.q, "integer", TRUE, None)>>,
     <<ToolParameter(Text.p, "array", TRUE, None),
       ToolParameter(Text.q, "object", FALSE, None)>>,
     <<ToolParameter(Text.p, "string", FALSE, None),
       ToolParameter(Text.q, "number", FALSE, None)>>,
     <<ToolParameter(Text.p, "array", FALSE, None),
       ToolParameter(Text.q, "boolean", FALSE, None)>>}

Implementations == {Impl.Empty, Impl.Bad, Impl.BadMiddle, Impl.Raise, Impl.Exit}

ImportLists ==
    {<<Import.Os>>, <<Import.Missing>>, <<Import.Bad>>, <<Import.Empty>>, <<Import.Os, Import.Os>>}

MethodLists ==
    {<<Method.Process>>, <<Method.A>>, <<Method.A, Method.B>>, <<Method.Process, Method.B>>,
     <<Method.Bad>>, <<Method.Bad, Method.A>>, <<Method.Process, Method.BadLong>>, <<Method.Assign>>,
     <<Import.Empty>>}

\* A well-formed request, and the requests that differ from it in one
\* argument.
BaseDef(name) == ToolDefinition(name, <<>>, Impl.Ok, <<>>, <<>>)
ToolDefinitions ==
    {BaseDef(n) : n \in ToolNames}
    \cup {[BaseDef(<<"A">>) EXCEPT !.parameters = ps] : ps \in ParameterLists}
    \cup {[BaseDef(<<"A">>) EXCEPT !.implementation = i] : i \in Implementations}
    \cup {[BaseDef(<<"A">>) EXCEPT !.imports = is] : is \in ImportLists}
    \cup {[BaseDef(<<"A">>) EXCEPT !.custom_methods = ms] : ms \in MethodLists}

\* ------------------------------------------------------- concurrent writes
\* open(tool_file_path, "w") truncates the file at once; the text handed to
\* f.write stays in the buffer of the file object until the `with` block
\* closes it, and is then written from offset 0 of the caller's own file
\* descriptor, over whatever the file holds by then.

\* Number of characters of a text of lines, each ending in a newline.
RECURSIVE TextSize(_)
TextSize(linhas) ==
    IF linhas = <<>> THEN 0 ELSE Len(Head(linhas)) + 1 + TextSize(Tail(linhas))

\* The lines of a text after its first n characters.
RECURSIVE DropChars(_, _)
DropChars(linhas, n) ==
    IF linhas = <<>> \/ n = 0 THEN linhas
    ELSE IF n >= Len(Head(linhas)) + 1
    THEN DropChars(Tail(linhas), n - Len(Head(linhas)) - 1)
    ELSE <<SubSeq(Head(linhas), n + 1, Len(Head(linhas)))>> \o Tail(linhas)

\* The file right after open(..., "w").
TruncatedFile ==
    [linhas |-> <<>>, decode |-> "ok", parse |-> ParseOk, classes |-> <<>>, exec |-> "ok",
     reexport |-> None]

\* The file after `code` was written from offset 0 over `old`: the text of
\* code, followed by what old holds beyond its length.  When something of
\* old is left, `accepted` says whether the parser takes the mixed text (the
\* classes are then those of code) or rejects it where old resumes.
WriteOver(old, code, accepted) ==
    IF TextSize(old.linhas) <= TextSize(code.linhas) THEN code
    ELSE [code EXCEPT
             !.linhas = code.linhas \o DropChars(old.linhas, TextSize(code.linhas)),
             !.parse = IF accepted THEN code.parse
                       ELSE ParseSyntaxError(Len(code.linhas) + 1, ParserMsg.invalid)]

\* ----------------------------------------------------------- module loads
\* module_name = res.tool_path.stem : the name the verifier hands to
\* spec_from_file_location for the file it loads.
module_name(tool_path) == tool_path.file[1].stem

\* The name the harness hands to spec_from_file_location, whatever the file.
modulo_dinamico ==
    <<"m", "o", "d", "u", "l", "o", "_", "d", "i", "n", "a", "m", "i", "c", "o">>

\* The call went as far as spec.loader.exec_module.
Loaded(calls) == \E i \in 1..Len(calls) : calls[i] = "exec_module"

\* The loads of the process so far, counted by module name, and one more.
CountLoad(loads, name) ==
    IF name \in DOMAIN loads THEN [loads EXCEPT ![name] = @ + 1] ELSE (name :> 1) @@ loads

VerifierLoad(loads, verificacao) ==
    IF Loaded(verificacao.calls)
    THEN CountLoad(loads, module_name(verificacao.ret.tool_path[1]))
    ELSE loads

HarnessLoad(loads, execucao) ==
    IF Loaded(execucao.calls) THEN CountLoad(loads, modulo_dinamico) ELSE loads

\* The loads of one DynamicToolCreator._run call: the verifier's, then the
\* harness's.
CreatorLoads(loads, verificacao, execucao) ==
    IF verificacao = None THEN loads
    ELSE IF execucao = None THEN VerifierLoad(loads, verificacao[1])
    ELSE HarnessLoad(VerifierLoad(loads, verificacao[1]), execucao[1])

\* ---------------------------------------------------------------- sys.path
\* list.remove: the list without the first occurrence of x.
RECURSIVE Remove(_, _)
Remove(list, x) ==
    IF list = <<>> THEN <<>>
    ELSE IF Head(list) = x THEN Tail(list)
    ELSE <<Head(list)>> \o Remove(Tail(list), x)

In(x, list) == \E i \in 1..Len(list) : list[i] = x

\* sys.path when _verify_import_and_inspect is left, given the list it found
\* and how exec_module ended (what the loaded code itself does to sys.path is
\* left out).
SysPathAfterImport(original_sys_path, parent_dir, exec) ==
    LET inserted == IF ~In(parent_dir, original_sys_path)
                    THEN <<parent_dir>> \o original_sys_path
                    ELSE original_sys_path
        \* except Exception as e_exec
        handled == IF exec = "Exception" /\ In(parent_dir, inserted)
                   THEN Remove(inserted, parent_dir)
                   ELSE inserted
    IN  \* finally
        IF In(parent_dir, handled) /\ ~In(parent_dir, original_sys_path)
        THEN Remove(handled, parent_dir)
        ELSE handled

\* sys.path as the verifier found it and as it left it; files holds the
\* file it verified.
VerifierSysPath(antes, files, verificacao) ==
    [original_sys_path |-> antes,
     atual |-> IF Loaded(verificacao.calls)
               THEN SysPathAfterImport(antes, ParentDir(verificacao.ret.tool_path[1]),
                                       files[verificacao.ret.tool_path[1]].exec)
               ELSE antes]

\* ------------------------------------------------------------- PDCA flow
\* PDCAFase, in the order of the cycle.
PDCAFase == <<"planejar", "fazer", "verificar", "agir", "concluido">>

\* A new PDCAState (the fields the flow's bookkeeping reads and writes).
PDCAState ==
    [status |-> "nao_iniciado", fase_atual |-> "planejar", data_conclusao |-> None,
     plano_acao |-> None, resultado_execucao |-> None, resultado_verificacao |-> None,
     acao_corretiva |-> None, fingerprints |-> <<>>, historico |-> <<>>]

\* PDCAState.registrar_evento (timestamps left out)
registrar_evento(state, evento, detalhes) ==
    [state EXCEPT !.historico = Append(@, [evento |-> evento, detalhes |-> detalhes])]

\* What a call of a PDCAFlow method leaves: the state object as it is then,
\* what the call raised, and the state salvar_estado wrote last (None: it
\* was not called).
Left(state, raised, salvo) == [state |-> state, raised |-> raised, salvo |-> salvo]

\* How a crew's kickoff ends: with a result that holds the pydantic object of
\* its last task, with a result whose pydantic is None (the task's text did
\* not convert), or raising.
CrewOutcomes == {"pydantic", "raw", "Exception", "SystemExit"}

\* An `except Exception` branch that leaves the status alone.
erro_fase_quiet(state, evento) ==
    Left(registrar_evento(state, evento, "erro"), "Exception",
         Some(registrar_evento(state, evento, "erro")))

\* The `except Exception` branch of the phase methods.
erro_fase(state, evento) ==
    Left([registrar_evento(state, evento, "erro") EXCEPT !.status = "erro"], "Exception",
         Some([registrar_evento(state, evento, "erro") EXCEPT !.status = "erro"]))

\* PDCAFlow.iniciar_ciclo
iniciar_ciclo(state) ==
    LET s == registrar_evento([state EXCEPT !.status = "em_andamento",
                                            !.fase_atual = "planejar"],
                              "ciclo_iniciado", "")
    IN  Left(s, "none", Some(s))

\* PDCAFlow.fase_planejar ; crew is how PlanejarCrew's kickoff ends.
fase_planejar(state, crew) ==
    LET s0 == registrar_evento(state, "fase_planejar_iniciada", "")
    IN  IF crew = "SystemExit" THEN Left(s0, "SystemExit", None)
        ELSE IF crew = "Exception" THEN erro_fase(s0, "erro_fase_planejar")
        ELSE
        LET s1 == [s0 EXCEPT
                      !.fingerprints = ("planejar" :> [status |-> "concluido"]) @@ @,
                      !.plano_acao = IF crew = "pydantic" THEN Some("PlanoAcao") ELSE None]
        IN  IF s1.plano_acao = None
            THEN \* None has no dict()
                 erro_fase(s1, "erro_fase_planejar")
            ELSE
            LET s2 == [registrar_evento(s1, "fase_planejar_concluida", "plano_acao")
                          EXCEPT !.fase_atual = "fazer"]
            IN  Left(s2, "none", Some(s2))

\* PDCAFlow.fase_fazer
fase_fazer(state, crew) ==
    LET s0 == registrar_evento(state, "fase_fazer_iniciada", "")
    IN  IF s0.plano_acao = None THEN erro_fase(s0, "erro_fase_fazer")
        ELSE IF crew = "SystemExit" THEN Left(s0, "SystemExit", None)
        ELSE IF crew = "Exception" THEN erro_fase(s0, "erro_fase_fazer")
        ELSE
        LET s1 == [s0 EXCEPT
                      !.fingerprints = ("fazer" :> [status |-> "concluido"]) @@ @,
                      !.resultado_execucao = IF crew = "pydantic"
                                             THEN Some("ResultadoExecucao") ELSE None]
        IN  IF s1.resultado_execucao = None
            THEN erro_fase(s1, "erro_fase_fazer")
            ELSE
            LET s2 == [registrar_evento(s1, "fase_fazer_concluida", "resultado_execucao")
                          EXCEPT !.fase_atual = "verificar"]
            IN  Left(s2, "none", Some(s2))

\* PDCAFlow.fase_verificar
fase_verificar(state, crew) ==
    LET s0 == registrar_evento(state, "fase_verificar_iniciada", "")
    IN  IF s0.resultado_execucao = None \/ s0.plano_acao = None
        THEN erro_fase(s0, "erro_fase_verificar")
        ELSE IF crew = "SystemExit" THEN Left(s0, "SystemExit", None)
        ELSE IF crew = "Exception" THEN erro_fase(s0, "erro_fase_verificar")
        ELSE
        LET s1 == [s0 EXCEPT
                      !.fingerprints = ("verificar" :> [status |-> "concluido"]) @@ @,
                      !.resultado_verificacao = IF crew = "pydantic"
                                                THEN Some("ResultadoVerificacao") ELSE None]
        IN  IF s1.resultado_verificacao = None
            THEN erro_fase(s1, "erro_fase_verificar")
            ELSE
            LET s2 == [registrar_evento(s1, "fase_verificar_concluida",
                                        "resultado_verificacao")
                          EXCEPT !.fase_atual = "agir"]
            IN  Left(s2, "none", Some(s2))

\* PDCAFlow.fase_agir
fase_agir(state, crew) ==
    LET s0 == registrar_evento(state, "fase_agir_iniciada", "")
    IN  IF s0.resultado_verificacao = None \/ s0.resultado_execucao = None
           \/ s0.plano_acao = None
        THEN erro_fase(s0, "erro_fase_agir")
        ELSE IF crew = "SystemExit" THEN Left(s0, "SystemExit", None)
        ELSE IF crew = "Exception" THEN erro_fase(s0, "erro_fase_agir")
        ELSE
        LET s1 == [s0 EXCEPT
                      !.fingerprints = ("agir" :> [status |-> "concluido"]) @@ @,
                      !.acao_corretiva = IF crew = "pydantic"
                                         THEN Some("AcaoCorretiva") ELSE None]
        IN  IF s1.acao_corretiva = None
            THEN erro_fase(s1, "erro_fase_agir")
            ELSE
            LET s2 == [registrar_evento(s1, "fase_agir_concluida", "acao_corretiva")
                          EXCEPT !.fase_atual = "concluido", !.status = "concluido",
                                 !.data_conclusao = Some("now")]
            IN  Left(s2, "none", Some(s2))

\* PDCAFlow.executar_ciclo_completo on a new state; crews tells how the
\* kickoff of each phase's crew ends.  Each phase is handed the state the
\* one before it returned; an exception ends the call.
executar_ciclo_completo(crews) ==
    LET p == fase_planejar(iniciar_ciclo(PDCAState).state, crews.planejar)
        d == fase_fazer(p.state, crews.fazer)
        c == fase_verificar(d.state, crews.verificar)
    IN  IF p.raised # "none" THEN p
        ELSE IF d.raised # "none" THEN d
        ELSE IF c.raised # "none" THEN c
        ELSE fase_agir(c.state, crews.agir)

\* The index of a phase in PDCAFase.
Ordinal(fase) == CHOOSE i \in 1..Len(PDCAFase) : PDCAFase[i] = fase

\* PDCAFlow.reiniciar_ciclo
reiniciar_ciclo(state, fase_inicial) ==
    LET s0 == registrar_evento(state, "ciclo_reiniciado", fase_inicial)
        s1 == [s0 EXCEPT
                  !.plano_acao = IF fase_inicial = "planejar" THEN None ELSE @,
                  !.resultado_execucao =
                      IF fase_inicial \in {"planejar", "fazer"} THEN None ELSE @,
                  !.resultado_verificacao =
                      IF fase_inicial \in {"planejar", "fazer", "verificar"} THEN None ELSE @,
                  !.acao_corretiva =
                      IF fase_inicial \in {"planejar", "fazer", "verificar", "agir"}
                      THEN None ELSE @]
        s2 == [s1 EXCEPT !.status = "em_andamento", !.fase_atual = fase_inicial,
                         !.data_conclusao = None]
    IN  Left(s2, "none", Some(s2))

\* ------------------------------------------------------------------ state
\* dirs, files : the directories and the files (path -> content) on disk
\* cwd_in_crews: the working directory is, or lies under, a 'crews' directory
\* op, entrada : the last operation and the arguments it was called with
\* saida       : what that operation left (value returned, exception that
\*               escaped, calls made; for a creation also the verifier's and
\*               the harness's own answers and the file system it started in)
\* nops        : operations so far
\* loads       : module name -> number of loads made under it in this process
\* chamadas    : the DynamicToolCreator._run calls under way at the same time:
\*               for each its position (pc), its arguments (tool_def) and
\*               what it left (saida)
\* ordem       : the callers in the order in which they wrote the tool file,
\*               and whether each call ended before the next began (serial)
\* sys_path    : sys.path of the process, as the last verification found it
\*               (original_sys_path) and as it is now (atual)
\* state       : the PDCAState the caller of the flow holds
\* salvo       : what salvar_estado wrote last (None: nothing yet)
VARIABLES dirs, files, cwd_in_crews, op, entrada, saida, nops, loads, chamadas, ordem,
          sys_path, state, salvo

vars == <<dirs, files, cwd_in_crews, op, entrada, saida, nops, loads, chamadas, ordem,
          sys_path, state, salvo>>

Init ==
    /\ dirs = {}
    /\ files = <<>>
    /\ cwd_in_crews \in BOOLEAN
    /\ op = "none"
    /\ entrada = None
    /\ saida = None
    /\ nops = 0
    /\ loads = <<>>
    /\ chamadas = [c \in 1..MaxCallers |-> [pc |-> "idle", tool_def |-> None, saida |-> None]]
    /\ ordem = [escritas |-> <<>>, serial |-> TRUE]
    /\ \E found \in {<<>>, <<SampleDir("cwd")>>} :
          sys_path = [original_sys_path |-> found, atual |-> found]
    /\ state = PDCAState
    /\ salvo = None

\* The state a DynamicToolCreator._run call leaves.
CreateLeaves(tool_def, c) ==
    /\ dirs' = c.dirs
    /\ files' = c.files
    /\ saida' = [ret |-> c.ret, raised |-> c.raised, calls |-> c.calls,
                 verificacao |-> c.verificacao, execucao |-> c.execucao,
                 dirs_antes |-> dirs, files_antes |-> files]
    /\ op' = "create"
    /\ entrada' = tool_def
    /\ nops' = nops + 1
    /\ loads' = CreatorLoads(loads, c.verificacao, c.execucao)
    /\ sys_path' = IF c.verificacao = None THEN sys_path
                   ELSE VerifierSysPath(sys_path.atual, c.files, c.verificacao[1])
    /\ UNCHANGED <<chamadas, ordem, state, salvo>>
    /\ UNCHANGED cwd_in_crews

\* An agent calls DynamicToolCreator with a tool definition.
Create(tool_def) ==
    /\ nops < MaxOps
    /\ CreateLeaves(tool_def,
                    DynamicToolCreator_run(dirs, files, cwd_in_crews, tool_def.name,
                        tool_def.parameters, tool_def.implementation, tool_def.imports,
                        tool_def.custom_methods))

\* Someone writes a file by hand (its directory comes with it).
PutArtifact(p, content) ==
    /\ nops < MaxOps
    /\ dirs' = dirs \cup {ParentDir(p)}
    /\ files' = (p :> content) @@ files
    /\ op' = "put"
    /\ entrada' = [path |-> p]
    /\ saida' = None
    /\ nops' = nops + 1
    /\ UNCHANGED <<cwd_in_crews, loads, chamadas, ordem, sys_path, state, salvo>>

\* An agent calls ToolVerifierTool.run.
Verify(tool_path) ==
    /\ nops < MaxOps
    /\ op' = "verify"
    /\ entrada' = [tool_path |-> tool_path]
    /\ saida' = run(dirs, files, tool_path)
    /\ nops' = nops + 1
    /\ loads' = VerifierLoad(loads, saida')
    /\ sys_path' = IF tool_path = None THEN sys_path
                   ELSE VerifierSysPath(sys_path.atual, files, saida')
    /\ UNCHANGED <<chamadas, ordem, state, salvo>>
    /\ UNCHANGED <<dirs, files, cwd_in_crews>>

\* An agent calls ExecutarFerramentaTool._run.
Execute(caminho_ferramenta, nome_classe, parametros) ==
    /\ nops < MaxOps
    /\ op' = "execute"
    /\ entrada' = [caminho_ferramenta |-> caminho_ferramenta, nome_classe |-> nome_classe,
                   parametros |-> parametros]
    /\ saida' = ExecutarFerramentaTool_run(dirs, files, cwd_in_crews, caminho_ferramenta,
                                           nome_classe, parametros)
    /\ nops' = nops + 1
    /\ loads' = HarnessLoad(loads, saida')
    /\ UNCHANGED <<chamadas, ordem, sys_path, state, salvo>>
    /\ UNCHANGED <<dirs, files, cwd_in_crews>>

\* The path DynamicToolCreator._run derives from a tool name.
ToolFilePath(name) ==
    Path("cwd", "crews", ReplaceChar(Lower(name), " ", <<>>) \o Text.tool,
         Some(FileName(ReplaceChar(Lower(name), " ", <<"_">>) \o Text.tool, ".py")))

\* Caller c enters DynamicToolCreator._run with a well-formed request: the
\* directory is made, the tree is built and the tool file is opened for
\* writing.
OpenToolFile(c, tool_def) ==
    /\ chamadas[c].pc = "idle"
    /\ dirs' = dirs \cup {ParentDir(ToolFilePath(tool_def.name))}
    /\ files' = (ToolFilePath(tool_def.name) :> TruncatedFile) @@ files
    /\ chamadas' = [chamadas EXCEPT ![c] = [pc |-> "opened", tool_def |-> Some(tool_def),
                                             saida |-> None]]
    /\ ordem' = [ordem EXCEPT !.serial =
                     @ /\ \A d \in 1..MaxCallers : chamadas[d].pc \in {"idle", "done"}]
    /\ op' = "open"
    /\ entrada' = tool_def
    /\ saida' = None
    /\ UNCHANGED <<cwd_in_crews, nops, loads, sys_path, state, salvo>>

\* The `with` block of caller c ends: the text it generated is written.
CloseToolFile(c, accepted) ==
    /\ chamadas[c].pc = "opened"
    /\ LET tool_def == chamadas[c].tool_def[1]
           tool_file_path == ToolFilePath(tool_def.name)
       IN  /\ files' = (tool_file_path :>
                           WriteOver(files[tool_file_path],
                                     generate_code(tool_def) @@ [reexport |-> None],
                                     accepted)) @@ files
           /\ entrada' = tool_def
    /\ chamadas' = [chamadas EXCEPT ![c].pc = "written"]
    /\ ordem' = [ordem EXCEPT !.escritas = Append(@, c)]
    /\ op' = "close"
    /\ saida' = None
    /\ UNCHANGED <<dirs, cwd_in_crews, nops, loads, sys_path, state, salvo>>

\* Caller c goes on after its write: __init__.py, the verification of the
\* file as it is now, the smoke test and the report.
FinishCreate(c) ==
    /\ chamadas[c].pc = "written"
    /\ LET tool_def == chamadas[c].tool_def[1]
           r == AfterWrite(tool_def.name, tool_def.parameters, cwd_in_crews, dirs, files,
                           ToolFilePath(tool_def.name))
       IN  /\ files' = r.files
           /\ chamadas' = [chamadas EXCEPT ![c].pc = "done",
                                            ![c].saida = Some([ret |-> r.ret,
                                                               raised |-> r.raised,
                                                               verificacao |-> r.verificacao])]
           /\ loads' = CreatorLoads(loads, r.verificacao, r.execucao)
           /\ sys_path' = VerifierSysPath(sys_path.atual, r.files, r.verificacao[1])
           /\ entrada' = tool_def
    /\ op' = "finish"
    /\ saida' = None
    /\ UNCHANGED <<dirs, cwd_in_crews, nops, ordem, state, salvo>>

\* What a call of a PDCAFlow method on the caller's state leaves.
FlowLeaves(metodo, argumentos, r) ==
    /\ nops < MaxOps
    /\ state' = r.state
    /\ salvo' = IF r.salvo # None THEN r.salvo ELSE salvo
    /\ op' = metodo
    /\ entrada' = argumentos
    /\ saida' = [raised |-> r.raised, antes |-> state, state |-> r.state]
    /\ nops' = nops + 1
    /\ UNCHANGED <<dirs, files, cwd_in_crews, loads, chamadas, ordem, sys_path>>

IniciarCiclo == FlowLeaves("iniciar_ciclo", None, iniciar_ciclo(state))

FasePlanejar(crew) == FlowLeaves("fase_planejar", [crew |-> crew], fase_planejar(state, crew))

FaseFazer(crew) == FlowLeaves("fase_fazer", [crew |-> crew], fase_fazer(state, crew))

FaseVerificar(crew) ==
    FlowLeaves("fase_verificar", [crew |-> crew], fase_verificar(state, crew))

FaseAgir(crew) == FlowLeaves("fase_agir", [crew |-> crew], fase_agir(state, crew))

ReiniciarCiclo(fase_inicial) ==
    FlowLeaves("reiniciar_ciclo", [fase_inicial |-> fase_inicial],
               reiniciar_ciclo(state, fase_inicial))

\* executar_ciclo_completo builds its own state and returns it; when a phase
\* raises, the caller is left with the state it held.
ExecutarCicloCompleto(crews) ==
    LET r == executar_ciclo_completo(crews)
    IN  /\ nops < MaxOps
        /\ state' = IF r.raised = "none" THEN r.state ELSE state
        /\ salvo' = r.salvo
        /\ op' = "executar_ciclo_completo"
        /\ entrada' = [crews |-> crews]
        /\ saida' = [raised |-> r.raised, antes |-> PDCAState, state |-> r.state]
        /\ nops' = nops + 1
        /\ UNCHANGED <<dirs, files, cwd_in_crews, loads, chamadas, ordem, sys_path>>

\* The synthesis pipeline: tools are created one after the other.
Next ==
    \E tool_def \in ToolDefinitions : Create(tool_def)

Spec == Init /\ [][Next]_vars

\* The verifier on hand-written files.
NextVerify ==
    \/ \E content \in VerifierArtifacts : PutArtifact(SamplePy("cwd"), content)
    \/ PutArtifact(SampleTxt("cwd"), GoodArtifact)
    \/ \E tool_path \in VerifierPaths : Verify(tool_path)

SpecVerify == Init /\ [][NextVerify]_vars

\* The harness on hand-written files.
NextExec ==
    \/ \E content \in HarnessArtifacts : PutArtifact(SamplePy("cwd"), content)
    \/ \E b \in Bases \ {"cwd"} : PutArtifact(SamplePy(b), GoodArtifact)
    \/ PutArtifact(SampleTxt("cwd"), GoodArtifact)
    \/ \E caminho \in HarnessPaths, nome_classe \in {ClassName.ATool, ClassName.BTool},
          parametros \in {{}, {Text.p}} : Execute(caminho, nome_classe, parametros)

SpecExec == Init /\ [][NextExec]_vars

\* Requests whose names give the same tool file, with texts of different
\* lengths.
RaceDefinitions ==
    {BaseDef(<<"A">>), BaseDef(<<"a">>),
     [BaseDef(<<"a">>) EXCEPT !.custom_methods = <<Method.Process>>],
     [BaseDef(<<"A">>) EXCEPT !.implementation = Impl.Raise],
     [BaseDef(<<"A">>) EXCEPT !.parameters = <<ToolParameter(Text.p, "integer", FALSE, None)>>]}

\* DynamicToolCreator._run called by several callers at the same time.
NextRace ==
    \/ \E c \in 1..MaxCallers, tool_def \in RaceDefinitions : OpenToolFile(c, tool_def)
    \/ \E c \in 1..MaxCallers, accepted \in BOOLEAN : CloseToolFile(c, accepted)
    \/ \E c \in 1..MaxCallers : FinishCreate(c)

SpecRace == Init /\ [][NextRace]_vars

\* How the crews of one executar_ciclo_completo call end: all with a
\* pydantic result, or all but one (what follows a failed phase does not
\* run).
CrewScripts ==
    {[fase \in {"planejar", "fazer", "verificar", "agir"} |->
         IF fase = falha THEN crew ELSE "pydantic"] :
        falha \in {"planejar", "fazer", "verificar", "agir"}, crew \in CrewOutcomes}

\* The methods of PDCAFlow called in any order.
NextFlow ==
    \/ IniciarCiclo
    \/ \E crew \in CrewOutcomes : FasePlanejar(crew)
    \/ \E crew \in CrewOutcomes : FaseFazer(crew)
    \/ \E crew \in CrewOutcomes : FaseVerificar(crew)
    \/ \E crew \in CrewOutcomes : FaseAgir(crew)
    \/ \E fase_inicial \in {PDCAFase[i] : i \in 1..Len(PDCAFase)} : ReiniciarCiclo(fase_inicial)
    \/ \E crews \in CrewScripts : ExecutarCicloCompleto(crews)

SpecFlow == Init /\ [][NextFlow]_vars

\* ------------------------------------------------------------- properties
\* The file the last verify call was given, when it is a .py file on disk.
VerifiedFile ==
    /\ op = "verify"
    /\ entrada.tool_path # None
    /\ entrada.tool_path[1] \in DOMAIN files
    /\ entrada.tool_path[1].file[1].suffix = ".py"
VerifiedContent == files[entrada.tool_path[1]]

\* First position of a call in a call log (0: not there).
Pos(calls, what) ==
    IF \E i \in 1..Len(calls) : calls[i] = what
    THEN CHOOSE i \in 1..Len(calls) :
            calls[i] = what /\ \A j \in 1..(i - 1) : calls[j] # what
    ELSE 0

\* C1: ToolVerifierTool.run never raises: whatever the tool_path, the call
\* returns a report and no exception leaves it.
C1_VerifyNeverRaises ==
    op = "verify" => saida.raised = "none"

\* The file's top-level code ends the process (sys.exit) and the exit leaves
\* the verifier.
C1_TopLevelExitEscapes ==
    /\ VerifiedFile
    /\ VerifiedContent.exec = "SystemExit"
    /\ saida.raised = "SystemExit"

\* C2: in every report ToolVerifierTool.run returns, sucesso is true exactly
\* when erros is empty, whatever avisos and infos hold.
C2_SucessoIffNoErros ==
    (op = "verify" /\ saida.raised = "none")
        => (saida.ret.sucesso <=> saida.ret.erros = <<>>)

\* A report with warnings and sucesso = true.
C2_WarningsAndSucesso ==
    /\ op = "verify"
    /\ saida.raised = "none"
    /\ saida.ret.sucesso
    /\ saida.ret.avisos # <<>>

\* C3: ExecutarFerramentaTool._run is a hard boundary: no exception leaves
\* it, whatever fails, the tool raising or exiting included.
C3_HarnessNeverRaises ==
    op = "execute" => saida.raised = "none"

\* The entry point of the tool exits and the exit leaves the harness.
C3_EntryPointExitEscapes ==
    /\ op = "execute"
    /\ saida.raised = "SystemExit"
    /\ Pos(saida.calls, "run") # 0

\* The names of the methods of a list whose body is only `pass`.
EmptyMethodNames(custom_methods) ==
    {custom_methods[i].stmts[1].name : i \in {j \in 1..Len(custom_methods) :
        /\ custom_methods[j].parse.kind = "ok"
        /\ custom_methods[j].stmts # <<>>
        /\ custom_methods[j].stmts[1].kind = "FunctionDef"
        /\ custom_methods[j].stmts[1].pass_only}}

\* C4: with a custom method whose body is only `pass`, DynamicToolCreator._run
\* fails before touching storage: no directory or file is created or
\* changed, nothing is verified or executed, and the error names every
\* empty method.
C4_EmptyMethodTouchesNothing ==
    (op = "create" /\ EmptyMethodNames(entrada.custom_methods) # {})
        => /\ dirs = saida.dirs_antes
           /\ files = saida.files_antes
           /\ saida.verificacao = None
           /\ saida.execucao = None
           /\ saida.raised = "none"
           /\ {saida.ret.metodos_vazios[i] : i \in 1..Len(saida.ret.metodos_vazios)}
                  = EmptyMethodNames(entrada.custom_methods)

\* A request with an empty method that left a new directory behind.
C4_DirectoryCreated ==
    /\ op = "create"
    /\ EmptyMethodNames(entrada.custom_methods) # {}
    /\ saida.ret.kind = "ERRO: metodos auxiliares vazios"
    /\ dirs # saida.dirs_antes

\* A valid specification: every fragment parses and no custom method is
\* empty.
ValidSpecification(tool_def) ==
    /\ \A i \in 1..Len(tool_def.imports) : tool_def.imports[i].parse.kind = "ok"
    /\ \A i \in 1..Len(tool_def.custom_methods) :
          tool_def.custom_methods[i].parse.kind = "ok"
    /\ tool_def.implementation.parse.kind = "ok"
    /\ EmptyMethodNames(tool_def.custom_methods) = {}

\* C5: round trip: for every valid specification the verifier, run on the
\* file DynamicToolCreator._run just wrote, returns sucesso = true and no
\* fatal diagnostic.
C5_RoundTrip ==
    (op = "create" /\ ValidSpecification(entrada))
        => /\ saida.verificacao # None
           /\ saida.verificacao[1].raised = "none"
           /\ saida.verificacao[1].ret.sucesso
           /\ saida.verificacao[1].ret.erros = <<>>

\* The default implementation (the empty text) gave a file the verifier
\* rejects.
C5_EmptyImplementationRejected ==
    /\ op = "create"
    /\ ValidSpecification(entrada)
    /\ entrada.implementation.linhas = <<>>
    /\ saida.verificacao # None
    /\ ~saida.verificacao[1].ret.sucesso

\* C6: in one DynamicToolCreator._run call the file is written before it is
\* verified and verified before it is executed, and the harness is called
\* only when the report of that call has sucesso = true: never when the
\* report holds a fatal diagnostic.
C6_WriteVerifyExecute ==
    op = "create" =>
        /\ saida.verificacao # None =>
              /\ 0 < Pos(saida.calls, "write_tool")
              /\ Pos(saida.calls, "write_tool") < Pos(saida.calls, "verify")
        /\ (saida.execucao # None \/ Pos(saida.calls, "execute") # 0) =>
              /\ saida.execucao # None
              /\ saida.verificacao # None
              /\ saida.verificacao[1].raised = "none"
              /\ saida.verificacao[1].ret.sucesso
              /\ 0 < Pos(saida.calls, "verify")
              /\ Pos(saida.calls, "verify") < Pos(saida.calls, "execute")
        /\ (saida.verificacao # None /\ saida.verificacao[1].ret.erros # <<>>) =>
              /\ saida.execucao = None
              /\ Pos(saida.calls, "execute") = 0

\* A creation whose report held a fatal diagnostic and that stopped after the
\* verification.
C6_RejectedNotExecuted ==
    /\ op = "create"
    /\ saida.verificacao # None
    /\ saida.verificacao[1].ret.erros # <<>>
    /\ Pos(saida.calls, "verify") # 0
    /\ saida.execucao = None

\* The last verify call read a file that parses and whose first class ending
\* in 'Tool' has no _run in its body.
MissingRunVerified ==
    /\ VerifiedFile
    /\ VerifiedContent.decode = "ok"
    /\ VerifiedContent.parse.kind = "ok"
    /\ FirstToolClass(VerifiedContent.classes) # 0
    /\ ~VerifiedContent.classes[FirstToolClass(VerifiedContent.classes)].has_run_def
    /\ saida.raised = "none"

SyntaxErrorVerified ==
    /\ VerifiedFile
    /\ VerifiedContent.decode = "ok"
    /\ VerifiedContent.parse.kind = "SyntaxError"
    /\ saida.raised = "none"
ErrorLine == VerifiedContent.linhas[VerifiedContent.parse.lineno]

NoSuchPyFile ==
    /\ op = "verify"
    /\ entrada.tool_path # None
    /\ \/ entrada.tool_path[1] \notin DOMAIN files
       \/ entrada.tool_path[1].file[1].suffix # ".py"

\* C9: when tool_path does not exist, or is no regular file with suffix .py,
\* the report holds exactly one fatal diagnostic, tool_class_name is null and
\* the file is neither parsed nor loaded nor instantiated.
C9_ExistenceStageStops ==
    NoSuchPyFile
        => /\ saida.raised = "none"
           /\ ~saida.ret.sucesso
           /\ Len(saida.ret.erros) = 1
           /\ saida.ret.tool_class_name = None
           /\ saida.calls = <<>>

\* A file that exists, holds a well-formed tool and is not called .py.
C9_NotPyRejected ==
    /\ NoSuchPyFile
    /\ entrada.tool_path[1] \in DOMAIN files
    /\ files[entrada.tool_path[1]].classes # <<>>
    /\ saida.ret.erros[1].msg.id = "O caminho fornecido nao e um arquivo .py valido"

\* The last verify call read a file that parses and holds no class whose
\* name ends in 'Tool'.
NoToolClassVerified ==
    /\ VerifiedFile
    /\ VerifiedContent.decode = "ok"
    /\ VerifiedContent.parse.kind = "ok"
    /\ \A i \in 1..Len(VerifiedContent.classes) :
          ~EndsWith(VerifiedContent.classes[i].name, Marker.Tool)

\* C10: when the source parses and holds no class whose name ends in 'Tool',
\* the report holds exactly one fatal diagnostic and the verifier stops
\* before the dynamic load: the file's top-level code is not run.
C10_StructuralStageStops ==
    NoToolClassVerified
        => /\ saida.raised = "none"
           /\ ~saida.ret.sucesso
           /\ Len(saida.ret.erros) = 1
           /\ saida.ret.erros[1].msg.id = "ERRO NA ESTRUTURA DA CLASSE"
           /\ Pos(saida.calls, "exec_module") = 0

\* A file with a class, none ending in 'Tool', rejected without being loaded.
C10_OtherClassNotLoaded ==
    /\ NoToolClassVerified
    /\ VerifiedContent.classes # <<>>
    /\ Len(saida.ret.erros) = 1
    /\ Pos(saida.calls, "ast.parse") # 0
    /\ Pos(saida.calls, "exec_module") = 0

\* C11: every dynamic load of the process, by the verifier or by the
\* harness, is made under a module name no other load of the process used:
\* no name is handed to the loader twice.
C11_FreshModuleIdentity ==
    \A name \in DOMAIN loads : loads[name] <= 1

\* The harness loaded twice, both times under 'modulo_dinamico'.
C11_HarnessNameReused ==
    /\ op = "execute"
    /\ modulo_dinamico \in DOMAIN loads
    /\ loads[modulo_dinamico] >= 2

\* The last verify call read a file that parses and holds a class ending in
\* 'Tool'.
ToolClassVerified ==
    /\ VerifiedFile
    /\ VerifiedContent.decode = "ok"
    /\ VerifiedContent.parse.kind = "ok"
    /\ FirstToolClass(VerifiedContent.classes) # 0

\* A list of report entries holds the message `id`.
HasEntry(entries, id) == \E i \in 1..Len(entries) : entries[i].msg.id = id

CtorFailedVerified ==
    /\ ToolClassVerified
    /\ VerifiedContent.exec = "ok"
    /\ Len(VerifiedContent.classes) = 1
    /\ VerifiedContent.classes[1].has_run_def
    /\ "BaseTool" \in VerifiedContent.classes[1].base_names
    /\ VerifiedContent.classes[1].bound
    /\ VerifiedContent.classes[1].is_basetool
    /\ VerifiedContent.classes[1].run_attr_callable
    /\ VerifiedContent.classes[1].ctor = "Exception"

\* C13: when the zero-argument construction of the class raises, the
\* failure is a warning and no fatal diagnostic, so a file that passed the
\* earlier stages still has sucesso = true; the attributes of the instance
\* and its args_schema are not checked.
C13_CtorFailureIsWarning ==
    CtorFailedVerified
        => /\ saida.raised = "none"
           /\ saida.ret.sucesso
           /\ saida.ret.erros = <<>>
           /\ HasEntry(saida.ret.avisos, "Falha na instanciacao")
           /\ ~HasEntry(saida.ret.infos, "Atributo 'name' encontrado na instancia")
           /\ Pos(saida.calls, "model_json_schema") = 0

\* The constructor raised and the report holds it as a fatal diagnostic:
\* sucesso is false.
C13_CtorFailureIsFatal ==
    /\ CtorFailedVerified
    /\ saida.raised = "none"
    /\ ~saida.ret.sucesso
    /\ saida.ret.erros[1].msg.id = "Falha na instanciacao"
    /\ saida.ret.erros[1].prefix = "ERRO"
    /\ ~HasEntry(saida.ret.avisos, "Falha na instanciacao")
    /\ Pos(saida.calls, "model_json_schema") = 0

\* The last execute call returned a failure text.
HarnessFailed ==
    /\ op = "execute"
    /\ saida.raised = "none"
    /\ saida.ret.kind # "Execucao de Ferramenta"

HarnessSucceeded ==
    /\ op = "execute"
    /\ saida.raised = "none"
    /\ saida.ret.resultado # None

\* The file the last execute call found, and the class it took from it.
FoundPath ==
    LET candidatos == CaminhosPossiveis(entrada.caminho_ferramenta, cwd_in_crews)
    IN  candidatos[CaminhoValido(dirs, files, candidatos)]
FoundClass ==
    files[FoundPath].classes[ModuleMember(files[FoundPath].classes, entrada.nome_classe)]

ClassWithoutEntryPoint ==
    /\ op = "execute"
    /\ Pos(saida.calls, "exec_module") # 0
    /\ files[FoundPath].decode = "ok"
    /\ files[FoundPath].parse.kind = "ok"
    /\ files[FoundPath].exec = "ok"
    /\ ModuleMember(files[FoundPath].classes, entrada.nome_classe) # 0
    /\ ~FoundClass.has_run_method

\* C16: the harness checks that the class is in the module and has a
\* callable entry point before it constructs an instance: a class without a
\* callable entry point is reported without its constructor being run, and
\* the entry point is called only after both checks, with the argument map
\* as keyword arguments.
C16_ChecksBeforeConstruction ==
    /\ ClassWithoutEntryPoint
          => /\ saida.raised = "none"
             /\ saida.ret.kind = "ERRO: A classe nao possui um metodo 'run'"
             /\ Pos(saida.calls, "instantiate") = 0
             /\ Pos(saida.calls, "run") = 0
    /\ (op = "execute" /\ Pos(saida.calls, "run") # 0)
          => /\ ModuleMember(files[FoundPath].classes, entrada.nome_classe) # 0
             /\ FoundClass.has_run_method
             /\ Pos(saida.calls, "instantiate") < Pos(saida.calls, "run")

\* A class without a callable run: the harness reports it after having run
\* the constructor.
C16_ConstructedBeforeEntryCheck ==
    /\ ClassWithoutEntryPoint
    /\ saida.ret.kind = "ERRO: A classe nao possui um metodo 'run'"
    /\ Pos(saida.calls, "instantiate") # 0
    /\ Pos(saida.calls, "run") = 0

\* The places the last execute call has to try, in order: the path as given
\* (a relative one lies under the working directory), then, for a relative
\* path, the path under the project root and, when it starts with crews/
\* and the working directory lies in a 'crews' directory, the path re-based
\* on that directory.
Tried ==
    LET c == entrada.caminho_ferramenta
    IN  IF c.isabs THEN <<Path(c.base, c.top, c.dir, c.file)>>
        ELSE IF c.top = "crews" /\ cwd_in_crews
        THEN <<Path("cwd", c.top, c.dir, c.file), Path("project_root", c.top, c.dir, c.file),
               Path("crews_parent", c.top, c.dir, c.file)>>
        ELSE <<Path("cwd", c.top, c.dir, c.file), Path("project_root", c.top, c.dir, c.file)>>
OnDisk(p) == p \in dirs \/ p \in DOMAIN files
FirstOnDisk ==
    Tried[CHOOSE i \in 1..Len(Tried) :
             OnDisk(Tried[i]) /\ \A j \in 1..(i - 1) : ~OnDisk(Tried[j])]

\* C17: the harness tries the candidates in their fixed order and loads the
\* first that exists: what it answers is what that file gives (its path in
\* the texts that name the file found, a result only when that file holds
\* the class and runs, a syntax error only when that file has one).  When
\* no candidate exists it returns the not-found text with every candidate
\* tried, in order, and loads nothing.
C17_FirstExistingCandidate ==
    op = "execute" =>
        IF \A i \in 1..Len(Tried) : ~OnDisk(Tried[i])
        THEN /\ saida.raised = "none"
             /\ saida.ret.kind = "ERRO: O arquivo nao foi encontrado"
             /\ saida.ret.tentados = Tried
             /\ saida.calls = <<>>
        ELSE /\ saida.ret.kind # "ERRO: O arquivo nao foi encontrado"
             /\ saida.ret.tentados = <<>>
             /\ Suffix(FirstOnDisk) # ".py"
                   => /\ saida.ret.kind = "ERRO: Nao foi possivel carregar o modulo"
                      /\ saida.ret.caminho = Some(FirstOnDisk)
                      /\ saida.calls = <<>>
             /\ Suffix(FirstOnDisk) = ".py"
                   => /\ Pos(saida.calls, "exec_module") = 1
                      /\ saida.ret.kind = "ERRO: A classe nao foi encontrada no modulo"
                            => saida.ret.caminho = Some(FirstOnDisk)
                      /\ saida.ret.erro = Some("SyntaxError")
                            <=> (files[FirstOnDisk].decode = "ok"
                                 /\ files[FirstOnDisk].parse.kind = "SyntaxError")
                      /\ saida.ret.resultado # None
                            => /\ files[FirstOnDisk].exec = "ok"
                               /\ \E i \in 1..Len(files[FirstOnDisk].classes) :
                                     /\ files[FirstOnDisk].classes[i].name = entrada.nome_classe
                                     /\ files[FirstOnDisk].classes[i].entry = "ok"

\* A relative path that is not under the working directory and is under the
\* project root: the second candidate was loaded and ran.
C17_FallbackCandidateLoaded ==
    /\ op = "execute"
    /\ ~entrada.caminho_ferramenta.isabs
    /\ Len(Tried) >= 2
    /\ ~OnDisk(Tried[1])
    /\ OnDisk(Tried[2])
    /\ saida.raised = "none"
    /\ saida.ret.resultado # None

\* The last create call was given fragments of which no import fails, no
\* custom method is empty, and a custom method or the implementation has a
\* syntax error.
FragmentSyntaxError ==
    /\ op = "create"
    /\ EmptyMethodNames(entrada.custom_methods) = {}
    /\ \A i \in 1..Len(entrada.imports) :
          entrada.imports[i].parse.kind = "ok" /\ entrada.imports[i].stmts # <<>>
    /\ \A i \in 1..Len(entrada.custom_methods) :
          entrada.custom_methods[i].parse.kind \in {"ok", "SyntaxError"}
          /\ (entrada.custom_methods[i].parse.kind = "ok"
                 => entrada.custom_methods[i].stmts # <<>>)
    /\ \/ \E i \in 1..Len(entrada.custom_methods) :
             entrada.custom_methods[i].parse.kind = "SyntaxError"
       \/ entrada.implementation.parse.kind = "SyntaxError"

\* The fragment the parser rejected: the first such custom method, or the
\* implementation when every custom method parses.
FailingFragment ==
    IF \E i \in 1..Len(entrada.custom_methods) :
          entrada.custom_methods[i].parse.kind = "SyntaxError"
    THEN entrada.custom_methods[
             CHOOSE i \in 1..Len(entrada.custom_methods) :
                /\ entrada.custom_methods[i].parse.kind = "SyntaxError"
                /\ \A j \in 1..(i - 1) : entrada.custom_methods[j].parse.kind = "ok"]
    ELSE entrada.implementation

\* The lines of a fragment from 3 before to 3 after line l.
Around(linhas, l) ==
    SubSeq(linhas, IF l - 3 >= 1 THEN l - 3 ELSE 1, IF l + 3 <= Len(linhas) THEN l + 3 ELSE Len(linhas))

\* C18: when a custom method or the implementation does not parse on its
\* own, the creation fails with a syntax error that carries the number of
\* the failing line within the fragment and the lines from 3 before to 3
\* after it; for a custom method as for the implementation.
C18_LineAndContext ==
    FragmentSyntaxError
        => /\ saida.raised = "SyntaxError"
           /\ saida.ret.linha = FailingFragment.parse.lineno
           /\ saida.ret.contexto = Around(FailingFragment.linhas, FailingFragment.parse.lineno)

\* A custom method of ten lines with a syntax error in line 6: the error
\* that leaves the creation holds line 6 and none of the lines around it.
C18_MethodErrorWithoutContext ==
    /\ FragmentSyntaxError
    /\ FailingFragment # entrada.implementation
    /\ Len(FailingFragment.linhas) = 10
    /\ saida.raised = "SyntaxError"
    /\ saida.ret.linha = 6
    /\ saida.ret.contexto = <<FailingFragment.linhas[6]>>

\* The last create call was given an empty custom method, or an import, a
\* custom method or an implementation with a syntax error.
SynthesisFails ==
    /\ op = "create"
    /\ \/ EmptyMethodNames(entrada.custom_methods) # {}
       \/ \E i \in 1..Len(entrada.imports) : entrada.imports[i].parse.kind = "SyntaxError"
       \/ \E i \in 1..Len(entrada.custom_methods) :
             entrada.custom_methods[i].parse.kind = "SyntaxError"
       \/ entrada.implementation.parse.kind = "SyntaxError"

\* C19: when the synthesis fails (an empty custom method, or a syntax error
\* in the implementation, a custom method or an import) no file is written:
\* the files on disk and their contents are what they were before the call,
\* the tool file of an earlier creation included, and nothing is verified or
\* executed.  The same holds whenever an exception leaves the call before the
\* verification.
C19_FailedSynthesisWritesNoFile ==
    /\ SynthesisFails
          => /\ files = saida.files_antes
             /\ Pos(saida.calls, "write_tool") = 0
             /\ Pos(saida.calls, "write_init") = 0
             /\ saida.verificacao = None
             /\ saida.execucao = None
             /\ Pos(saida.calls, "verify") = 0
             /\ Pos(saida.calls, "execute") = 0
             /\ saida.raised # "none" \/ saida.ret.kind = "ERRO: metodos auxiliares vazios"
    /\ (op = "create" /\ saida.raised # "none" /\ saida.verificacao = None)
          => files = saida.files_antes

\* A creation that failed on a syntax error after an earlier creation had
\* written the tool file of the same name: the file is still there, as it
\* was.
C19_EarlierFileKept ==
    /\ SynthesisFails
    /\ saida.raised = "SyntaxError"
    /\ \E p \in DOMAIN files :
          /\ p.file[1].stem = ReplaceChar(Lower(entrada.name), " ", <<"_">>) \o Text.tool
          /\ files[p].parse.kind = "ok"
          /\ p \in DOMAIN saida.files_antes
          /\ saida.files_antes[p] = files[p]

\* The last create call wrote the tool file; the path it wrote it to is the
\* one it handed to the verifier.
ToolFileWritten ==
    /\ op = "create"
    /\ Pos(saida.calls, "write_tool") # 0
    /\ saida.verificacao # None
WrittenPath == saida.verificacao[1].ret.tool_path[1]

\* C20: the directory and the file of the artifact are named by one
\* normalization of the tool name: for every name, names with spaces
\* included, the file <n>_tool.py lies in the directory <n>_tool with the
\* same n.
C20_OneNormalizedName ==
    ToolFileWritten
        => /\ WrittenPath \in DOMAIN files
           /\ ParentDir(WrittenPath) \in dirs
           /\ EndsWith(WrittenPath.dir, Text.tool)
           /\ WrittenPath.file[1].stem = WrittenPath.dir

\* A tool name with a space in it: the directory name drops the space, the
\* file name has an underscore for it.
C20_SpaceNamedTwoWays ==
    /\ ToolFileWritten
    /\ IsSubstr(<<" ">>, entrada.name)
    /\ WrittenPath \in DOMAIN files
    /\ WrittenPath.dir = ReplaceChar(Lower(entrada.name), " ", <<>>) \o Text.tool
    /\ WrittenPath.file[1].stem = ReplaceChar(Lower(entrada.name), " ", <<"_">>) \o Text.tool
    /\ WrittenPath.file[1].stem # WrittenPath.dir

\* The optional parameters of the last create call, in their order.
OptionalParameters ==
    SelectSeq(entrada.parameters, LAMBDA param : ~param.required)

\* The literal the type of a parameter asks for when it has no default.
FallbackLiteral(type) ==
    CASE type = "string" -> "''"
      [] type = "integer" -> "0"
      [] type = "number" -> "0.0"
      [] type = "boolean" -> "False"
      [] type = "array" -> "[]"
      [] type = "object" -> "{}"
      [] OTHER -> "None"

\* The classes of the file the last create call wrote: the tool class is the
\* last one, the parameter model the one before it.
WrittenClasses == files[WrittenPath].classes

\* C21: for an optional parameter without default the default written is
\* chosen by its type: '' for string, 0 for integer, 0.0 for number, False
\* for boolean, [] for array, {} for object; the field of the parameter
\* model and the signature of _run hold the same value.
C21_FallbackByType ==
    (ToolFileWritten /\ entrada.parameters # <<>>)
        => /\ Len(WrittenClasses) = 2
           /\ Len(WrittenClasses[1].defaults) = Len(OptionalParameters)
           /\ WrittenClasses[1].defaults = WrittenClasses[2].defaults
           /\ \A i \in 1..Len(OptionalParameters) :
                 OptionalParameters[i].default = None
                    => WrittenClasses[2].defaults[i] = FallbackLiteral(OptionalParameters[i].type)

\* An optional parameter of type number without default: the field and the
\* signature both hold the integer literal 0.
C21_NumberFallsBackToInteger ==
    /\ ToolFileWritten
    /\ \E i \in 1..Len(OptionalParameters) :
          /\ OptionalParameters[i].type = "number"
          /\ OptionalParameters[i].default = None
          /\ WrittenClasses[1].defaults[i] = "0"
          /\ WrittenClasses[2].defaults[i] = "0"

\* The default the signature of a written class gives its i-th argument
\* (None: it gives none): defaults belong to the last arguments.
SignatureDefault(class, i) ==
    IF i <= Len(class.args) - Len(class.defaults) THEN None
    ELSE Some(class.defaults[i - (Len(class.args) - Len(class.defaults))])
WrittenTool == WrittenClasses[Len(WrittenClasses)]

\* C23: in the _run of a generated tool every optional parameter carries
\* its own default and every required parameter carries none, also when an
\* optional parameter is listed before a required one.
C23_OwnDefaults ==
    ToolFileWritten
        => \A i \in 1..Len(entrada.parameters) :
              SignatureDefault(WrittenTool, i)
                = IF entrada.parameters[i].required THEN None
                  ELSE Some(DefaultValue(entrada.parameters[i]))

\* A tool was written whose required parameter follows an optional one: the
\* required parameter has the optional one's default, the optional one none.
C23_DefaultOnRequired ==
    /\ ToolFileWritten
    /\ Len(entrada.parameters) = 2
    /\ ~entrada.parameters[1].required
    /\ entrada.parameters[2].required
    /\ SignatureDefault(WrittenTool, 1) = None
    /\ SignatureDefault(WrittenTool, 2) = Some(DefaultValue(entrada.parameters[1]))

\* What the __init__.py beside the tool file just written imports.
WrittenInit ==
    files[[WrittenPath EXCEPT !.file = Some(FileName(Text.init, ".py"))]].reexport

\* C24: after creator calls that wrote their tool file, the __init__.py of
\* the tool's directory imports the module and the class of the tool written
\* last into that directory, also when the names of the tools differ only in
\* case or spaces.
C24_InitImportsLatest ==
    ToolFileWritten
        => WrittenInit = Some([module |-> WrittenPath.file[1].stem,
                               class |-> CleanName(entrada.name) \o Marker.Tool])

\* A second tool was written into a directory that had an __init__.py: the
\* file still imports the class of the first tool, which the module no
\* longer defines.
C24_StaleImport ==
    /\ ToolFileWritten
    /\ Pos(saida.calls, "write_init") = 0
    /\ WrittenInit # None
    /\ WrittenInit[1].module = WrittenPath.file[1].stem
    /\ WrittenInit[1].class # CleanName(entrada.name) \o Marker.Tool
    /\ \A i \in 1..Len(WrittenClasses) : WrittenClasses[i].name # WrittenInit[1].class

\* C25: _verify_import_and_inspect leaves sys.path as it found it, when the
\* module loads and when it fails, whether or not the parent directory of the
\* file was on sys.path before.
C25_SysPathRestored ==
    (op = "verify" /\ Loaded(saida.calls)) => sys_path.atual = sys_path.original_sys_path

\* The module of a file whose directory was on sys.path failed to load: the
\* directory is on sys.path no longer.
C25_EntryRemoved ==
    /\ op = "verify"
    /\ Loaded(saida.calls)
    /\ files[entrada.tool_path[1]].exec = "Exception"
    /\ In(ParentDir(entrada.tool_path[1]), sys_path.original_sys_path)
    /\ ~In(ParentDir(entrada.tool_path[1]), sys_path.atual)

\* The creator ran the smoke test, and the harness's answer tells the
\* arguments it was called with.
SmokeTested ==
    /\ op = "create"
    /\ saida.execucao # None
    /\ saida.execucao[1].ret.parametros # None
SmokeTestArguments == saida.execucao[1].ret.parametros[1]
RequiredParameters ==
    {entrada.parameters[i].name :
        i \in {j \in 1..Len(entrada.parameters) : entrada.parameters[j].required}}

\* C26: the arguments of the smoke test hold a value for every required
\* parameter, whatever its type tag (string, integer, number, boolean,
\* array, object), and none for an optional parameter.
C26_EveryRequiredParameter ==
    SmokeTested => SmokeTestArguments = RequiredParameters

\* The smoke test of a tool with a required parameter of type number: the
\* call was made without a value for it, and the harness answered with an
\* error.
C26_NumberLeftOut ==
    /\ SmokeTested
    /\ \E i \in 1..Len(entrada.parameters) :
          /\ entrada.parameters[i].required
          /\ entrada.parameters[i].type = "number"
          /\ entrada.parameters[i].name \notin SmokeTestArguments
    /\ saida.execucao[1].ret.kind = "ERRO na Execucao de Ferramenta"

\* The last operation was a phase method of PDCAFlow.
PhaseMethods ==
    [fase_planejar |-> "planejar", fase_fazer |-> "fazer", fase_verificar |-> "verificar",
     fase_agir |-> "agir"]
PhaseCalled == op \in DOMAIN PhaseMethods
Events ==
    [planejar |-> [iniciada |-> "fase_planejar_iniciada", concluida |-> "fase_planejar_concluida",
                   erro |-> "erro_fase_planejar", campo |-> "plano_acao"],
     fazer |-> [iniciada |-> "fase_fazer_iniciada", concluida |-> "fase_fazer_concluida",
                erro |-> "erro_fase_fazer", campo |-> "resultado_execucao"],
     verificar |-> [iniciada |-> "fase_verificar_iniciada",
                    concluida |-> "fase_verificar_concluida",
                    erro |-> "erro_fase_verificar", campo |-> "resultado_verificacao"],
     agir |-> [iniciada |-> "fase_agir_iniciada", concluida |-> "fase_agir_concluida",
               erro |-> "erro_fase_agir", campo |-> "acao_corretiva"]]
Recorded(s, evento) == \E i \in 1..Len(s.historico) : s.historico[i].evento = evento

\* C27: after any sequence of PDCAFlow operations, fase_atual is CONCLUIDO
\* exactly when status is CONCLUIDO, and data_conclusao is set exactly when
\* status is CONCLUIDO.
C27_ConcluidoTogether ==
    /\ state.fase_atual = "concluido" <=> state.status = "concluido"
    /\ state.data_conclusao # None <=> state.status = "concluido"

\* reiniciar_ciclo was called with fase_inicial CONCLUIDO: the cycle is at
\* the phase CONCLUIDO with status EM_ANDAMENTO.
C27_RestartedAtConcluido ==
    /\ op = "reiniciar_ciclo"
    /\ entrada.fase_inicial = "concluido"
    /\ state.fase_atual = "concluido"
    /\ state.status = "em_andamento"

\* A result an earlier phase should have left is missing from s.
MissingPrerequisite(fase, s) ==
    \/ fase = "fazer" /\ s.plano_acao = None
    \/ fase = "verificar" /\ (s.resultado_execucao = None \/ s.plano_acao = None)
    \/ fase = "agir" /\ (s.resultado_verificacao = None \/ s.resultado_execucao = None
                         \/ s.plano_acao = None)
IsStart(e) == \E f \in DOMAIN Events : e.evento = Events[f].iniciada
IsError(e) == \E f \in DOMAIN Events : e.evento = Events[f].erro
StartedPhases(s) == [i \in 1..Len(SelectSeq(s.historico, IsStart)) |->
                        SelectSeq(s.historico, IsStart)[i].evento]

C29_FingerprintMeansCompleted ==
    ~Recorded(state, "ciclo_reiniciado")
        => /\ \A fase \in DOMAIN state.fingerprints :
                 /\ state.fingerprints[fase].status = "concluido"
                 /\ state[Events[fase].campo] # None
                 /\ Recorded(state, Events[fase].concluida)
           /\ (PhaseCalled /\ saida.raised = "Exception")
                 => state.fingerprints = saida.antes.fingerprints

\* PlanejarCrew returned a result without a pydantic object on a new state:
\* the phase ended with status ERRO, without plano_acao and without its
\* fase_planejar_concluida event, and its fingerprint is there.
C29_FingerprintOfFailedPhase ==
    /\ op = "fase_planejar"
    /\ entrada.crew = "raw"
    /\ saida.antes.fingerprints = <<>>
    /\ state.status = "erro"
    /\ state.plano_acao = None
    /\ ~Recorded(state, "fase_planejar_concluida")
    /\ "planejar" \in DOMAIN state.fingerprints

\* C30: reiniciar_ciclo(state, fase_inicial) clears the result fields of
\* fase_inicial and of every later phase, leaves those of every earlier
\* phase, sets status EM_ANDAMENTO, fase_atual fase_inicial and
\* data_conclusao None, appends one ciclo_reiniciado event to historico and
\* persists the state; after it every phase before fase_atual has its result.
C30_RestartKeepsEarlierResults ==
    op = "reiniciar_ciclo"
        => /\ \A fase \in DOMAIN Events :
                 state[Events[fase].campo]
                   = IF Ordinal(fase) >= Ordinal(entrada.fase_inicial) THEN None
                     ELSE saida.antes[Events[fase].campo]
           /\ state.status = "em_andamento"
           /\ state.fase_atual = entrada.fase_inicial
           /\ state.data_conclusao = None
           /\ state.historico
                = Append(saida.antes.historico,
                         [evento |-> "ciclo_reiniciado", detalhes |-> entrada.fase_inicial])
           /\ salvo = Some(state)
           /\ \A fase \in DOMAIN Events :
                 Ordinal(fase) < Ordinal(state.fase_atual)
                    => state[Events[fase].campo] # None

\* A cycle without a plan was restarted at verificar: fase_atual is
\* verificar and the results of planejar and fazer are missing.
C30_RestartedWithoutEarlierResults ==
    /\ op = "reiniciar_ciclo"
    /\ entrada.fase_inicial = "verificar"
    /\ state.fase_atual = "verificar"
    /\ state.status = "em_andamento"
    /\ state.plano_acao = None
    /\ state.resultado_execucao = None

\* Every caller of the race has returned.
AllCallsDone ==
    /\ \A c \in 1..MaxCallers : chamadas[c].pc = "done"
LastWriter == ordem.escritas[Len(ordem.escritas)]
RacePath == ToolFilePath(chamadas[1].tool_def[1].name)

\* C22: last write wins: after calls whose names give the same tool file,
\* run one after the other or interleaved, the file holds exactly the text
\* generated by the call that wrote last and nothing of an earlier text; when
\* the calls ran one after the other, the report of each call is the
\* verification of its own text.
C22_LastWriteWins ==
    AllCallsDone
        => /\ files[RacePath].linhas = generate_code(chamadas[LastWriter].tool_def[1]).linhas
           /\ ordem.serial
                 => \A c \in 1..MaxCallers :
                       /\ chamadas[c].saida[1].verificacao # None
                       /\ chamadas[c].saida[1].verificacao[1]
                             = run(dirs, (RacePath :> (generate_code(chamadas[c].tool_def[1])
                                                          @@ [reexport |-> None])) @@ files,
                                   Some(RacePath))

\* Two interleaved calls: the file holds the text of the last writer
\* followed by the end of the longer text written before it.
C22_MixedArtifact ==
    /\ AllCallsDone
    /\ ~ordem.serial
    /\ Len(files[RacePath].linhas)
          > Len(generate_code(chamadas[LastWriter].tool_def[1]).linhas)
    /\ SubSeq(files[RacePath].linhas, 1,
              Len(generate_code(chamadas[LastWriter].tool_def[1]).linhas))
          = generate_code(chamadas[LastWriter].tool_def[1]).linhas

====
